---- MODULE Spec2Model ----
(***************************************************************************)
(* Model of the network request/retry layer and the GraphQL layer of the   *)
(* plugin (src/src/utils/graphql.ts), of the base-URL resolver and the     *)
(* stub pagers (constants module) and of the plugin script's getHome.      *)
(*                                                                         *)
(* One call is in flight at a time (the host runtime is single-threaded    *)
(* and synchronous).  A call of _fetch is a loop of attempts; each attempt *)
(* consumes one outcome of the host transport, chosen by the environment.  *)
(* Text is modelled as a sequence of string tokens: concatenation is \o,   *)
(* and String.includes is token membership.                                *)
(***************************************************************************)
EXTENDS Integers, Sequences, FiniteSets, TLC

VARIABLES
    pc,         \* "idle" | "loop" (inside _fetch's while loop) | "done"
    entry,      \* the entry point of the call in flight
    args,       \* Opt: the options record the entry point was called with
    opName,     \* Opt: operationName of a persisted query in flight
    url,        \* url handed to _fetch (token sequence)
    req,        \* _fetch's destructured options (defaults applied)
    attempts,   \* _fetch's local "attempts"
    lastError,  \* _fetch's local "lastError": Opt of an exception
    trace,      \* the transport outcomes consumed so far, one per attempt
    log,        \* the host calls made so far, in order
    fetchRes,   \* Opt: how _fetch ended (returned value or thrown exception)
    result,     \* Opt: the [error, data] pair returned by the GraphQL layer
    headers,    \* _fetch's local "headers": the merged header mapping
    sent,       \* the requests handed to the transport so far, one per attempt
    via,        \* the raising convenience form the call came through, or "none"
    conv,       \* Opt: how query / persistedQuery ended
    held,       \* Opt: the caller's options and the plugin object after the call began
    first,      \* Opt: the record of the previous call, when the call is a repetition
    cfg,        \* the base-URL resolver's plugin object and its answer
    home,       \* the plugin script's getHome call
    pagers,     \* the stub pager objects
    auth,       \* plugin.state's auth fields, the clock, and what the last refresh saw
    catalog,    \* the submit tool's sources.json and the last upsert on it
    job         \* the submit tool's run: its position and the temporary directory

callVars == <<pc, entry, args, opName, url, req, attempts, lastError, trace, log,
              fetchRes, result, headers, sent, via, conv, held, first>>
toolVars == <<auth, catalog, job>>
sideVars == <<cfg, home, pagers, toolVars>>
vars == <<callVars, sideVars>>

----------------------------------------------------------------------------
(* Bounds of the model *)

MaxRetries == 1

\* longest option list of the baseUrl setting
MaxOptions == 2

\* most thumbnail links in the page getHome scrapes
MaxThumbs == 2

\* most nextPage() calls made on one pager
MaxPages == 2

\* most advances of the clock in a run of the auth state
MaxTicks == 3

\* longest sources.json list read from a repository directory
MaxCatalog == 2

----------------------------------------------------------------------------
(* Optional values: <<>> is "absent/undefined/null", <<v>> is "present". *)

Default(o, d) == IF o = <<>> THEN d ELSE o[1]

(* Text helpers *)
Str(s) == IF s = "" THEN <<>> ELSE <<s>>

includes(msg, token) == \E i \in 1..Len(msg) : msg[i] = token

RECURSIVE join(_, _)
join(items, sep) ==
    IF Len(items) = 0 THEN <<>>
    ELSE IF Len(items) = 1 THEN Str(items[1])
    ELSE Str(items[1]) \o <<sep>> \o join(Tail(items), sep)

----------------------------------------------------------------------------
(* JavaScript values that flow through the layer *)

ErrUndefined == [t |-> "undefined", items |-> <<>>]
ErrNull      == [t |-> "null", items |-> <<>>]
ErrArray(ms) == [t |-> "array", items |-> ms]

Null      == [t |-> "null", errors |-> ErrUndefined, data |-> "undefined"]
Undefined == [t |-> "undefined", errors |-> ErrUndefined, data |-> "undefined"]
Obj(e, d) == [t |-> "object", errors |-> e, data |-> d]
\* the nested value held by a payload's data field
DataOf(v) ==
    IF v.data = "undefined" THEN Undefined
    ELSE [t |-> "value", errors |-> ErrUndefined, data |-> v.data]
RawResponse(body) == [t |-> "response", errors |-> ErrUndefined, data |-> body]
Document(body)    == [t |-> "document", errors |-> ErrUndefined, data |-> body]

\* JavaScript truthiness of the values above (objects and arrays are truthy)
Truthy(v)       == v.t \notin {"null", "undefined"}
TruthyErrors(e) == e.t = "array"

Exception(kind, message) == [kind |-> kind, message |-> message]

\* header mappings: functions from header keys to values
EmptyHeaders == [k \in {} |-> ""]
Header(key, value) == [k \in {key} |-> value]

\* spread of b over a that lets the first operand win
SpreadFirstWins(a, b) ==
    [k \in DOMAIN a \cup DOMAIN b |-> IF k \in DOMAIN a THEN a[k] ELSE b[k]]

\* { ...a, ...b }: the keys of both, b's value on a collision
Spread(a, b) ==
    [k \in DOMAIN a \cup DOMAIN b |-> IF k \in DOMAIN b THEN b[k] ELSE a[k]]

\* values a caller can pass as request data: v is the text of a string, and
\* the JSON text of any other value
DataValue(t, v) == [t |-> t, v |-> v]
NullData == DataValue("null", <<"null">>)

\* JavaScript truthiness of a data value
DataTruthy(d) ==
    CASE d.t = "null"    -> FALSE
      [] d.t = "string"  -> d.v # <<>>
      [] d.t = "number"  -> d.v # <<"0">>
      [] d.t = "boolean" -> d.v = <<"true">>
      [] OTHER           -> TRUE

\* JSON.stringify of a data value
stringifyData(d) == IF d.t = "string" THEN <<"\"">> \o d.v \o <<"\"">> ELSE d.v

----------------------------------------------------------------------------
(* The host transport: what one http.GET / http.POST / http.request may do *)

BodyBad       == "<html>"
BodyNull      == "null"
BodyData      == "{\"data\":{\"x\":1}}"
BodyEmpty     == "{}"
BodyErrData   == "{\"errors\":[{\"message\":\"A\"},{\"message\":\"B\"}],\"data\":{\"x\":1}}"
BodyErrMarker == "{\"errors\":[{\"message\":\"GraphQL errors\"}]}"
BodyErrFalsy  == "{\"errors\":null,\"data\":{\"x\":1}}"

Bodies == {BodyBad, BodyNull, BodyData, BodyEmpty, BodyErrData, BodyErrMarker, BodyErrFalsy}

Response(isOk, code, body) ==
    [threw |-> FALSE, message |-> <<>>, isOk |-> isOk, code |-> code, body |-> body]
Thrown(message) ==
    [threw |-> TRUE, message |-> message, isOk |-> FALSE, code |-> "", body |-> ""]

Outcomes ==
    {Thrown(<<"timeout">>), Thrown(<<"GraphQL errors">>)}
    \cup {Response(FALSE, "500", BodyBad)}
    \cup {Response(TRUE, "200", b) : b \in Bodies}

----------------------------------------------------------------------------
(* Host built-ins used by _fetch *)

\* JSON.parse on the bodies above: ok = FALSE is a SyntaxError
JSONparse(body) ==
    CASE body = BodyNull      -> [ok |-> TRUE,  val |-> Null]
      [] body = BodyData      -> [ok |-> TRUE,  val |-> Obj(ErrUndefined, "{\"x\":1}")]
      [] body = BodyEmpty     -> [ok |-> TRUE,  val |-> Obj(ErrUndefined, "undefined")]
      [] body = BodyErrData   -> [ok |-> TRUE,  val |-> Obj(ErrArray(<<"A", "B">>), "{\"x\":1}")]
      [] body = BodyErrMarker -> [ok |-> TRUE,  val |-> Obj(ErrArray(<<"GraphQL errors">>), "undefined")]
      [] body = BodyErrFalsy  -> [ok |-> TRUE,  val |-> Obj(ErrNull, "{\"x\":1}")]
      [] OTHER                -> [ok |-> FALSE, val |-> Undefined]

\* JSON.stringify of an errors array of {message: m} objects
RECURSIVE stringifyItems(_)
stringifyItems(items) ==
    IF Len(items) = 0 THEN <<>>
    ELSE <<"{\"message\":\"", items[1], "\"}">>
         \o (IF Len(items) > 1 THEN <<",">> ELSE <<>>)
         \o stringifyItems(Tail(items))

JSONstringify(errors) == <<"[">> \o stringifyItems(errors.items) \o <<"]">>

toUpperCase(m) ==
    CASE m = "get"    -> "GET"
      [] m = "post"   -> "POST"
      [] m = "delete" -> "DELETE"
      [] m = "patch"  -> "PATCH"
      [] OTHER        -> m

----------------------------------------------------------------------------
(* _fetch *)

DefaultRetries == 3
DefaultRetryDelay == 1000

FetchOptions(method, retries, retryDelay, parseJson, parseHtml, throwOnError) ==
    [method |-> method, retries |-> retries, retryDelay |-> retryDelay,
     parseJson |-> parseJson, parseHtml |-> parseHtml, throwOnError |-> throwOnError,
     headers |-> <<>>, data |-> <<>>, useAuth |-> <<>>]

NoOptions == FetchOptions(<<>>, <<>>, <<>>, <<>>, <<>>, <<>>)

\* the destructuring of options, with its defaults
Destructure(options) ==
    [method       |-> Default(options.method, "GET"),
     retries      |-> Default(options.retries, DefaultRetries),
     retryDelay   |-> Default(options.retryDelay, DefaultRetryDelay),
     parseJson    |-> Default(options.parseJson, FALSE),
     parseHtml    |-> Default(options.parseHtml, FALSE),
     throwOnError |-> Default(options.throwOnError, TRUE),
     customHeaders |-> Default(options.headers, EmptyHeaders),
     data         |-> Default(options.data, NullData),
     useAuth      |-> Default(options.useAuth, FALSE)]

\* a merge in which the plugin's default headers win
MergeHeadersDefaultsWin(defaultHeaders, customHeaders) ==
    SpreadFirstWins(defaultHeaders, customHeaders)

\* const headers = { ...defaultHeaders, ...customHeaders }
MergeHeaders(defaultHeaders, customHeaders) == Spread(defaultHeaders, customHeaders)

\* const body = data ? (typeof data === 'string' ? data : JSON.stringify(data)) : ''
Body(data) ==
    IF DataTruthy(data)
    THEN (IF data.t = "string" THEN data.v ELSE stringifyData(data))
    ELSE <<>>

TransportRequestRecord(call, method, u, body, h, useAuth) ==
    [call |-> call, method |-> method, url |-> u, body |-> body, headers |-> h,
     useAuth |-> useAuth]

\* a dispatch that sends every method but GET through http.POST
TransportRequestPostForAll(r, u, h) ==
    LET upperMethod == toUpperCase(r.method) IN
    IF upperMethod = "GET"
      THEN TransportRequestRecord("http.GET", <<>>, u, <<>>, h, r.useAuth)
    ELSE TransportRequestRecord("http.POST", <<>>, u, <<Body(r.data)>>, h, r.useAuth)

\* the request one iteration hands to the transport: the entry point, the
\* method argument (http.request only), the url, the body argument (none for
\* http.GET), the headers and the auth flag
TransportRequest(r, u, h) ==
    LET upperMethod == toUpperCase(r.method) IN
    IF upperMethod = "GET"
      THEN TransportRequestRecord("http.GET", <<>>, u, <<>>, h, r.useAuth)
    ELSE IF upperMethod = "POST"
      THEN TransportRequestRecord("http.POST", <<>>, u, <<Body(r.data)>>, h, r.useAuth)
    ELSE TransportRequestRecord("http.request", <<upperMethod>>, u, <<Body(r.data)>>, h,
                                r.useAuth)

\* a retry budget that forgets the initial attempt
InitialAttemptsNoFirst(retries) == retries

\* let attempts = retries + 1
InitialAttempts(retries) == retries + 1

\* the transport entry point chosen for a method
TransportCall(method) ==
    TransportRequest([method |-> method, data |-> NullData, useAuth |-> FALSE],
                     <<>>, EmptyHeaders).call

Returned(v, calls) == [kind |-> "return", val |-> v, exc |-> Exception("", <<>>), calls |-> calls]
Threw(e, calls)    == [kind |-> "throw", val |-> Undefined, exc |-> e, calls |-> calls]

\* a JSON branch that hands the payload back without looking at its errors
ParseJsonBranchNoErrorsCheck(body, calls) ==
    LET parsed == JSONparse(body)
        calls2 == Append(calls, "JSON.parse")
    IN  IF ~parsed.ok
          THEN Threw(Exception("SyntaxError", <<"Unexpected token in JSON">>), calls2)
        ELSE Returned(parsed.val, calls2)

\* a JSON branch that hands back the payload's data field
ParseJsonBranchUnwrapsData(body, calls) ==
    LET parsed == JSONparse(body)
        calls2 == Append(calls, "JSON.parse")
    IN  IF ~parsed.ok
          THEN Threw(Exception("SyntaxError", <<"Unexpected token in JSON">>), calls2)
        ELSE IF parsed.val.t = "null"
          THEN Threw(Exception("TypeError", <<"Cannot read properties of null (reading 'errors')">>), calls2)
        ELSE IF TruthyErrors(parsed.val.errors)
          THEN Threw(Exception("APIError", JSONstringify(parsed.val.errors)), calls2)
        ELSE Returned(DataOf(parsed.val), calls2)

\* the JSON branch of the try block
ParseJsonBranch(body, calls) ==
    LET parsed == JSONparse(body)
        jsonData == parsed.val
        calls2 == Append(calls, "JSON.parse")
    IN  IF ~parsed.ok
          THEN Threw(Exception("SyntaxError", <<"Unexpected token in JSON">>), calls2)
        ELSE IF jsonData.t = "null"
          THEN Threw(Exception("TypeError", <<"Cannot read properties of null (reading 'errors')">>), calls2)
        ELSE IF TruthyErrors(jsonData.errors)
          THEN Threw(Exception("APIError", JSONstringify(jsonData.errors)), calls2)
        ELSE Returned(jsonData, calls2)

\* a non-ok branch that ignores throwOnError
NotOkBranchAlwaysThrows(r, u, response, calls) ==
    Threw(Exception("NetworkError",
              <<"Request to ">> \o u \o <<" failed with status ", response.code>>), calls)

\* the non-ok branch of the try block
NotOkBranch(r, u, response, calls) ==
    LET error == Exception("NetworkError",
                     <<"Request to ">> \o u \o <<" failed with status ", response.code>>)
    IN  IF r.throwOnError THEN Threw(error, calls) ELSE Returned(Null, calls)

\* a try block that looks at parseHtml before parseJson
TryBlockHtmlFirst(r, u, outcome) ==
    LET calls == <<TransportCall(r.method)>> IN
    IF outcome.threw THEN Threw(Exception("HostError", outcome.message), calls)
    ELSE IF ~outcome.isOk THEN NotOkBranch(r, u, outcome, calls)
    ELSE IF r.parseHtml
      THEN Returned(Document(outcome.body), Append(calls, "domParser.parseFromString"))
    ELSE IF r.parseJson THEN ParseJsonBranch(outcome.body, calls)
    ELSE Returned(RawResponse(outcome.body), calls)

\* the body of the try block of one iteration, given the transport's outcome
TryBlock(r, u, outcome) ==
    LET calls == <<TransportCall(r.method)>> IN
    IF outcome.threw THEN Threw(Exception("HostError", outcome.message), calls)
    ELSE IF ~outcome.isOk THEN NotOkBranch(r, u, outcome, calls)
    ELSE IF r.parseJson THEN ParseJsonBranch(outcome.body, calls)
    ELSE IF r.parseHtml
      THEN Returned(Document(outcome.body), Append(calls, "domParser.parseFromString"))
    ELSE Returned(RawResponse(outcome.body), calls)

\* a wait that does not look at the attempts left
RetryWaitAfterLast(r, left) == IF r.retryDelay > 0 THEN <<"wait">> ELSE <<>>

\* the wait inside the catch block, after attempts--
RetryWait(r, left) == IF left > 0 /\ r.retryDelay > 0 THEN <<"wait">> ELSE <<>>

\* an exhaustion report that counts the retries, not the attempts
ExhaustedCountsRetries(r, u, last) ==
    IF r.throwOnError
    THEN Threw(Exception("NetworkError",
             <<"Request to ">> \o u \o <<" failed after ", ToString(r.retries),
               " attempts: ">> \o last[1].message), <<>>)
    ELSE Returned(Null, <<>>)

\* the code after the while loop
Exhausted(r, u, last) ==
    LET msg == IF last = <<>> \/ last[1].message = <<>>
               THEN <<"Unknown error">> ELSE last[1].message
    IN  IF r.throwOnError
        THEN Threw(Exception("NetworkError",
                 <<"Request to ">> \o u \o <<" failed after ", ToString(r.retries + 1),
                   " attempts: ">> \o msg), <<>>)
        ELSE Returned(Null, <<>>)

\* the convenience wrappers, as the options they hand to _fetch
get(options) == [options EXCEPT !.method = <<"GET">>]
post(data, options) == [options EXCEPT !.method = <<"POST">>, !.data = data]
put(data, options) == [options EXCEPT !.method = <<"PUT">>, !.data = data]
del(options) == [options EXCEPT !.method = <<"DELETE">>]

\* a fetchJson whose preset Accept header overrides the caller's
fetchJsonPresetWins(options) ==
    [options EXCEPT
        !.headers = <<Spread(Default(options.headers, EmptyHeaders),
                             Header("Accept", "application/json"))>>,
        !.parseJson = <<TRUE>>]

fetchJson(options) ==
    [options EXCEPT
        !.headers = <<Spread(Header("Accept", "application/json"),
                             Default(options.headers, EmptyHeaders))>>,
        !.parseJson = <<TRUE>>]
getJson(options) == fetchJson([options EXCEPT !.method = <<"GET">>])
postJson(data, options) ==
    fetchJson([options EXCEPT
        !.headers = <<Spread(Header("Content-Type", "application/json"),
                             Default(options.headers, EmptyHeaders))>>,
        !.method = <<"POST">>,
        !.data = data])
fetchHtml(options) == [options EXCEPT !.parseHtml = <<TRUE>>]
getHtml(options) == [options EXCEPT !.method = <<"GET">>, !.parseHtml = <<TRUE>>]

\* const payload = { query, variables }
GraphQLPayload(query, variables) ==
    DataValue("object", <<"{\"query\":\"", query, "\",\"variables\":", variables, "}">>)

\* a fetchGraphQL that leaves the method to the caller's options
fetchGraphQLOptionsKeepsMethod(query, variables, options) ==
    [options EXCEPT
        !.headers = <<Spread(Header("Content-Type", "application/json"),
                             Default(options.headers, EmptyHeaders))>>,
        !.data = <<GraphQLPayload(query, variables)>>,
        !.parseJson = <<TRUE>>]

fetchGraphQLOptions(query, variables, options) ==
    [options EXCEPT
        !.method = <<"POST">>,
        !.headers = <<Spread(Header("Content-Type", "application/json"),
                             Default(options.headers, EmptyHeaders))>>,
        !.data = <<GraphQLPayload(query, variables)>>,
        !.parseJson = <<TRUE>>]

----------------------------------------------------------------------------
(* The base-URL resolver (constants module) *)

PluginState(hasConfig, options, hasSettings, selected, dflt) ==
    [hasConfig |-> hasConfig, options |-> options, hasSettings |-> hasSettings,
     selected |-> selected, dflt |-> dflt, defaultHeaders |-> <<>>]

\* plugin.config?.constants?.defaultHeaders || {}
pluginDefaultHeaders(p) ==
    IF ~p.hasConfig THEN EmptyHeaders ELSE Default(p.defaultHeaders, EmptyHeaders)

PluginStates ==
    { PluginState(FALSE, <<>>, TRUE, <<>>, <<>>),
      PluginState(TRUE, <<>>, TRUE, <<>>, <<>>),
      PluginState(TRUE, <<"https://api.example">>, TRUE, <<>>, <<>>),
      PluginState(TRUE, <<"https://api.example">>, TRUE, <<"https://alt.example">>, <<>>),
      PluginState(TRUE, <<"https://api.example">>, FALSE, <<>>, <<>>) }

Value(s) == [threw |-> FALSE, value |-> s, exc |-> Exception("", <<>>)]
Raise(e) == [threw |-> TRUE, value |-> "", exc |-> e]

\* a lookup that treats an empty selection as no selection
getPluginSettingTruthy(p, defaultValue) ==
    IF ~p.hasSettings
      THEN Raise(Exception("TypeError", <<"Cannot read properties of undefined (reading 'baseUrl')">>))
    ELSE IF Default(p.selected, "") # "" THEN Value(p.selected[1])
    ELSE IF Default(p.dflt, "") # "" THEN Value(p.dflt[1])
    ELSE Value(defaultValue)

\* getPluginSetting('baseUrl', defaultValue)
getPluginSetting(p, defaultValue) ==
    IF ~p.hasSettings
      THEN Raise(Exception("TypeError", <<"Cannot read properties of undefined (reading 'baseUrl')">>))
    ELSE IF p.selected # <<>> THEN Value(p.selected[1])
    ELSE IF Default(p.dflt, "") # "" THEN Value(p.dflt[1])
    ELSE Value(defaultValue)

getBaseUrl(p) ==
    IF ~p.hasConfig THEN Value("")
    ELSE IF Len(p.options) = 0 THEN Value("")
    ELSE LET selectedUrl == getPluginSetting(p, p.options[1]) IN
         IF selectedUrl.threw THEN selectedUrl
         ELSE IF selectedUrl.value # "" THEN selectedUrl
         ELSE Value(p.options[1])

----------------------------------------------------------------------------
(* The GraphQL layer *)

GraphQLError(code, message, errors, operationName) ==
    [code |-> code, message |-> message, errors |-> errors, operationName |-> operationName]

Pair(error, data) == [error |-> error, data |-> data]

\* fetchGraphQL's unwrapping of the value _fetch returned
fetchGraphQL(response) ==
    IF Truthy(response) /\ Truthy(DataOf(response)) THEN DataOf(response) ELSE response

\* a catch block that reports every failure as EXCEPTION
executeQueryCatchNoMarker(err) ==
    Pair(<<GraphQLError("EXCEPTION", err.message, ErrUndefined, <<>>)>>, Null)

\* a catch block that reports a fixed message instead of the caught one
executeQueryCatchFixedMessage(err) ==
    Pair(<<GraphQLError("EXCEPTION", <<"GraphQL query failed">>, ErrUndefined, <<>>)>>, Null)

\* executeQuery's catch block
executeQueryCatch(err) ==
    IF err.message # <<>> /\ includes(err.message, "GraphQL errors")
    THEN Pair(<<GraphQLError("GQL_ERROR", err.message, ErrUndefined, <<>>)>>, Null)
    ELSE Pair(<<GraphQLError("EXCEPTION", err.message, ErrUndefined, <<>>)>>, Null)

\* executeQuery from the point where _fetch (called by fetchGraphQL) has ended
executeQueryEnd(fr) ==
    IF fr.kind = "throw" THEN executeQueryCatch(fr.exc)
    ELSE Pair(<<>>, fetchGraphQL(fr.val))

\* executePersistedQuery's catch block
executePersistedQueryCatch(err, operationName) ==
    Pair(<<GraphQLError("EXCEPTION", err.message, ErrUndefined, operationName)>>, Null)

\* response.data || null
DataOrNull(response) == IF Truthy(DataOf(response)) THEN DataOf(response) ELSE Null

\* executePersistedQuery from the point where _fetch (called by getJson) has ended
executePersistedQueryEnd(fr, operationName) ==
    IF fr.kind = "throw" THEN executePersistedQueryCatch(fr.exc, operationName)
    ELSE LET response == fr.val IN
         IF Truthy(response) /\ TruthyErrors(response.errors)
           THEN Pair(<<GraphQLError("GQL_ERROR", join(response.errors.items, ", "),
                                     response.errors, operationName)>>,
                     DataOrNull(response))
         ELSE IF response.t \in {"null", "undefined"}
           THEN executePersistedQueryCatch(
                    Exception("TypeError", <<"Cannot read properties of null (reading 'data')">>),
                    operationName)
         ELSE Pair(<<>>, DataOf(response))

\* endpoint.startsWith('http') ? endpoint : baseUrl + endpoint
AbsoluteEndpoints == {"http://other.example/gql"}
EndpointUrl(baseUrl, endpoint) ==
    IF endpoint \in AbsoluteEndpoints THEN <<endpoint>> ELSE Str(baseUrl) \o <<endpoint>>

\* `${baseUrl}?${params.toString()}`
PersistedUrl(baseUrl, operationName, variables, version, sha256Hash) ==
    Str(baseUrl) \o <<"?", "operationName=", operationName>>
    \o (IF variables # "" THEN <<"&variables=", variables>> ELSE <<>>)
    \o <<"&extensions=", "{\"persistedQuery\":{\"version\":", ToString(version),
         ",\"sha256Hash\":\"", sha256Hash, "\"}}">>

----------------------------------------------------------------------------
(* Inputs of the calls *)

GraphQLDefaultRetries == 3
PersistedDefaultRetries == 3
PersistedDefaultVersion == 1

RetriesInputs == {<<>>} \cup {<<n>> : n \in 0..MaxRetries}

FetchInputs ==
    { FetchOptions(m, r, d, j, h, t) :
        m \in {<<>>, <<"post">>, <<"DELETE">>},
        r \in RetriesInputs,
        d \in {<<>>, <<0>>},
        j \in {<<>>, <<TRUE>>},
        h \in {<<>>, <<TRUE>>},
        t \in {<<>>, <<FALSE>>} }

PageUrl == <<"https://site.example/page">>

QueryInputs ==
    [query : {<<>>, <<"">>, <<"{viewer{id}}">>},
     endpoint : {<<>>, <<"http://other.example/gql">>},
     retries : RetriesInputs]

\* the string arguments of query() and persistedQuery()
QueryStrings == {<<"">>, <<"{viewer{id}}">>}
OperationNames == {<<"">>, <<"GetViewer">>}
Hashes == {<<"">>, <<"abc123">>}

PersistedInputs ==
    [operationName : {<<>>, <<"">>, <<"GetViewer">>},
     sha256Hash : {<<>>, <<"">>, <<"abc123">>},
     variables : {<<>>, <<"{\"id\":1}">>},
     retries : RetriesInputs]

----------------------------------------------------------------------------
(* The state machine *)

CallInit ==
    /\ pc = "idle"
    /\ entry = "none"
    /\ args = <<>>
    /\ opName = <<>>
    /\ url = <<>>
    /\ req = Destructure(NoOptions)
    /\ attempts = 0
    /\ lastError = <<>>
    /\ trace = <<>>
    /\ log = <<>>
    /\ fetchRes = <<>>
    /\ result = <<>>
    /\ headers = EmptyHeaders
    /\ sent = <<>>
    /\ via = "none"
    /\ conv = <<>>
    /\ held = <<>>
    /\ first = <<>>

\* the caller's options object once a wrapper has run on it, had the wrapper
\* written the method into it
CallerOptionsAfterInPlace(options) == [options EXCEPT !.method = <<"GET">>]

\* the caller's options object once a wrapper has run on it: the wrappers and
\* _fetch spread or destructure it and never assign to it
CallerOptionsAfter(options) == options

\* the plugin's default headers object once _fetch has merged the headers:
\* the merge spreads into a fresh object
DefaultHeadersAfter(defaultHeaders, customHeaders) == defaultHeaders

Held(a, defaultHeaders, customHeaders) ==
    [options |-> CallerOptionsAfter(a),
     defaultHeaders |-> DefaultHeadersAfter(defaultHeaders, customHeaders)]

\* _fetch(u, options) up to the head of its while loop
EnterFetch(e, v, a, op, u, options, defaultHeaders) ==
    /\ pc' = "loop"
    /\ entry' = e
    /\ via' = v
    /\ args' = <<a>>
    /\ opName' = op
    /\ url' = u
    /\ req' = Destructure(options)
    /\ headers' = MergeHeaders(defaultHeaders, Destructure(options).customHeaders)
    /\ attempts' = InitialAttempts(Destructure(options).retries)
    /\ lastError' = <<>>
    /\ held' = <<Held(a, defaultHeaders, Destructure(options).customHeaders)>>
    /\ trace' = <<>>
    /\ log' = <<>>
    /\ sent' = <<>>
    /\ fetchRes' = <<>>
    /\ result' = <<>>
    /\ conv' = <<>>

\* a convenience form that hands the pair's data back whatever the error
ConvenienceEndNeverThrows(v, pair) ==
    IF v = "none" THEN <<>>
    ELSE <<[kind |-> "return", val |-> pair.data, exc |-> Exception("", <<>>)]>>

\* query / persistedQuery on the pair the tuple form returned
ConvenienceEnd(v, pair) ==
    IF v = "none" THEN <<>>
    ELSE IF pair.error # <<>>
      THEN <<[kind |-> "throw", val |-> Undefined,
              exc |-> Exception("GraphQLError", pair.error[1].message)]>>
    ELSE <<[kind |-> "return", val |-> pair.data, exc |-> Exception("", <<>>)]>>

\* a GraphQL-layer call that returns without reaching _fetch
ReturnEarly(e, v, a, op, pair, plugin) ==
    /\ pc' = "done"
    /\ entry' = e
    /\ via' = v
    /\ args' = <<a>>
    /\ opName' = op
    /\ result' = <<pair>>
    /\ conv' = ConvenienceEnd(v, pair)
    /\ held' = <<[options |-> a, defaultHeaders |-> pluginDefaultHeaders(plugin)]>>
    /\ UNCHANGED <<url, req, attempts, lastError, trace, log, fetchRes, headers, sent>>

\* the options a wrapper of the convenience API hands to _fetch; the data
\* argument of post, put and postJson is carried in options.data
WrapperOptions(w, options) ==
    CASE w = "get"       -> get(options)
      [] w = "post"      -> post(options.data, options)
      [] w = "put"       -> put(options.data, options)
      [] w = "del"       -> del(options)
      [] w = "fetchJson" -> fetchJson(options)
      [] w = "getJson"   -> getJson(options)
      [] w = "postJson"  -> postJson(options.data, options)
      [] w = "fetchHtml" -> fetchHtml(options)
      [] w = "getHtml"   -> getHtml(options)
      [] OTHER           -> options

\* a call of _fetch through a wrapper of the convenience API ("_fetch": directly)
CallWrapper(w, options, plugin) ==
    /\ pc = "idle"
    /\ EnterFetch(w, "none", options, <<>>, PageUrl, WrapperOptions(w, options),
                  pluginDefaultHeaders(plugin))
    /\ UNCHANGED first
    /\ UNCHANGED sideVars

\* a direct call of the request executor
CallFetch(options, plugin) == CallWrapper("_fetch", options, plugin)

\* validations that only catch an absent value, not an empty one
MissingQueryAbsentOnly(query) == query = <<>>
MissingPersistedNameOnly(operationName, sha256Hash) == Default(operationName, "") = ""

\* if (!query)
MissingQuery(query) == Default(query, "") = ""

\* if (!operationName || !sha256Hash)
MissingPersisted(operationName, sha256Hash) ==
    Default(operationName, "") = "" \/ Default(sha256Hash, "") = ""

\* executeQuery(options), reached directly (v = "none") or through query()
ExecuteQuery(v, options, plugin) ==
    /\ pc = "idle"
    /\ LET query == Default(options.query, "")
           endpoint == Default(options.endpoint, "/graphql")
           retries == Default(options.retries, GraphQLDefaultRetries)
           baseUrl == getBaseUrl(plugin)
       IN  IF MissingQuery(options.query)
             THEN ReturnEarly("executeQuery", v, options, <<>>,
                      Pair(<<GraphQLError("INVALID_QUERY", <<"Query string is required">>,
                                          ErrUndefined, <<>>)>>, Null), plugin)
           ELSE IF baseUrl.threw
             THEN ReturnEarly("executeQuery", v, options, <<>>,
                      executeQueryCatch(baseUrl.exc), plugin)
           ELSE EnterFetch("executeQuery", v, options, <<>>,
                    EndpointUrl(baseUrl.value, endpoint),
                    fetchGraphQLOptions(query, "{}",
                        [NoOptions EXCEPT !.headers = <<EmptyHeaders>>,
                                          !.useAuth = <<FALSE>>,
                                          !.retries = <<retries>>]),
                    pluginDefaultHeaders(plugin))
    /\ UNCHANGED first
    /\ UNCHANGED sideVars

CallExecuteQuery(options, plugin) == ExecuteQuery("none", options, plugin)

\* query(queryString): executeQuery({ query: queryString, variables })
CallQuery(queryString, plugin) ==
    ExecuteQuery("query", [query |-> queryString, endpoint |-> <<>>, retries |-> <<>>], plugin)

\* executePersistedQuery(options), reached directly or through persistedQuery()
ExecutePersistedQuery(v, options, plugin) ==
    /\ pc = "idle"
    /\ LET operationName == Default(options.operationName, "")
           sha256Hash == Default(options.sha256Hash, "")
           variables == Default(options.variables, "")
           retries == Default(options.retries, PersistedDefaultRetries)
           baseUrl == getBaseUrl(plugin)
       IN  IF MissingPersisted(options.operationName, options.sha256Hash)
             THEN ReturnEarly("executePersistedQuery", v, options, options.operationName,
                      Pair(<<GraphQLError("INVALID_PERSISTED_QUERY",
                                          <<"operationName and sha256Hash are required">>,
                                          ErrUndefined, <<>>)>>, Null), plugin)
           ELSE IF baseUrl.threw
             THEN ReturnEarly("executePersistedQuery", v, options, options.operationName,
                      executePersistedQueryCatch(baseUrl.exc, options.operationName), plugin)
           ELSE EnterFetch("executePersistedQuery", v, options, options.operationName,
                    PersistedUrl(baseUrl.value, operationName, variables,
                                 PersistedDefaultVersion, sha256Hash),
                    getJson([NoOptions EXCEPT !.headers = <<EmptyHeaders>>,
                                              !.useAuth = <<FALSE>>,
                                              !.retries = <<retries>>,
                                              !.throwOnError = <<FALSE>>]),
                    pluginDefaultHeaders(plugin))
    /\ UNCHANGED first
    /\ UNCHANGED sideVars

CallExecutePersistedQuery(options, plugin) == ExecutePersistedQuery("none", options, plugin)

\* persistedQuery(operationName, sha256Hash)
CallPersistedQuery(operationName, sha256Hash, plugin) ==
    ExecutePersistedQuery("persistedQuery",
        [operationName |-> operationName, sha256Hash |-> sha256Hash,
         variables |-> <<>>, retries |-> <<>>], plugin)

\* what the caller of _fetch makes of its end
EndOfCall(e, op, fr) ==
    CASE e = "executeQuery"          -> <<executeQueryEnd(fr)>>
      [] e = "executePersistedQuery" -> <<executePersistedQueryEnd(fr, op)>>
      [] OTHER                       -> <<>>

FetchEnds(fr) ==
    /\ pc' = "done"
    /\ fetchRes' = <<[kind |-> fr.kind, val |-> fr.val, exc |-> fr.exc]>>
    /\ result' = EndOfCall(entry, opName, fr)
    /\ conv' = IF EndOfCall(entry, opName, fr) = <<>> THEN <<>>
               ELSE ConvenienceEnd(via, EndOfCall(entry, opName, fr)[1])

\* the transport of a repeated call is deterministic: it answers the n-th
\* attempt as it answered the n-th attempt of the call before
Replayed(outcome) ==
    IF first = <<>> THEN TRUE
    ELSE IF Len(trace) >= Len(first[1].trace) THEN TRUE
    ELSE outcome = first[1].trace[Len(trace) + 1]

\* one iteration of _fetch's while loop, and the code after the loop when it
\* was the last one
Attempt(outcome) ==
    /\ pc = "loop"
    /\ attempts > 0
    /\ Replayed(outcome)
    /\ trace' = Append(trace, outcome)
    /\ sent' = Append(sent, TransportRequest(req, url, headers))
    /\ LET try == TryBlock(req, url, outcome)
           left == attempts - 1
       IN  IF try.kind = "return"
             THEN /\ log' = log \o try.calls
                  /\ FetchEnds(try)
                  /\ UNCHANGED <<attempts, lastError>>
           ELSE /\ lastError' = <<try.exc>>
                /\ attempts' = left
                /\ log' = log \o try.calls \o RetryWait(req, left)
                /\ IF left > 0
                     THEN UNCHANGED <<pc, fetchRes, result, conv>>
                     ELSE FetchEnds(Exhausted(req, url, <<try.exc>>))
    /\ UNCHANGED <<entry, args, opName, url, req, headers, via, held, first>>
    /\ UNCHANGED sideVars

\* the caller repeats a finished call of a convenience wrapper with the
\* options object and the plugin configuration as the first call left them
Repeat ==
    /\ pc = "done"
    /\ first = <<>>
    /\ entry \notin {"none", "executeQuery", "executePersistedQuery"}
    /\ first' = <<[args |-> args[1], sent |-> sent, trace |-> trace, log |-> log,
                   fetchRes |-> fetchRes, held |-> held[1]]>>
    /\ EnterFetch(entry, "none", held[1].options, <<>>, PageUrl,
                  WrapperOptions(entry, held[1].options), held[1].defaultHeaders)
    /\ UNCHANGED sideVars

\* the caller takes the result; the layer keeps no state between calls
Reset ==
    /\ pc = "done"
    /\ pc' = "idle"
    /\ entry' = "none"
    /\ args' = <<>>
    /\ opName' = <<>>
    /\ url' = <<>>
    /\ req' = Destructure(NoOptions)
    /\ attempts' = 0
    /\ lastError' = <<>>
    /\ trace' = <<>>
    /\ log' = <<>>
    /\ fetchRes' = <<>>
    /\ result' = <<>>
    /\ headers' = EmptyHeaders
    /\ sent' = <<>>
    /\ via' = "none"
    /\ conv' = <<>>
    /\ held' = <<>>
    /\ first' = <<>>
    /\ UNCHANGED sideVars

\* the plugin script before source.enable: no cookies, nothing in flight
HomeInit ==
    [pc |-> "off", cookies |-> "", returned |-> <<>>, request |-> <<>>, page |-> <<>>,
     promise |-> <<>>]

\* 24 * 60 * 60 * 1000: the lifetime refreshAuthToken gives a token, in ms
TokenLifetime == 24 * 60 * 60 * 1000

\* plugin.state before any refresh (no field written yet), the clock, and
\* the bookkeeping of the properties: the refresh last made (the state it
\* found, the time, whether it threw out), the time of the last successful
\* refresh, whether clearAuthState ran since the last refresh that yielded a
\* non-empty token, and the clock advances made
AuthInit ==
    [state |-> [authToken |-> <<>>, userId |-> <<>>, authTokenExpiration |-> <<>>],
     now |-> TokenLifetime,
     last |-> <<>>, refreshedAt |-> <<>>, cleared |-> FALSE, ticks |-> 0]

CatalogInit == [sources |-> <<>>, last |-> <<>>]
JobInit ==
    [pc |-> "idle", config |-> <<>>, tempDir |-> FALSE, cloned |-> FALSE,
     file |-> "none", sources |-> <<>>, action |-> <<>>, branchName |-> <<>>,
     prUrl |-> <<>>, cleaned |-> FALSE, exitCode |-> <<>>]

\* the stub pager classes; none is constructed at the start
PagerKinds == {"SearchPager", "ChannelSearchPager", "CommentsPager", "SubCommentsPager"}
NoPagers == [k \in PagerKinds |-> <<>>]

SideInit ==
    /\ cfg = <<>>
    /\ home = HomeInit
    /\ pagers = NoPagers
    /\ auth = AuthInit
    /\ catalog = CatalogInit
    /\ job = JobInit

Init == CallInit /\ SideInit

Next ==
    \/ \E options \in FetchInputs, plugin \in PluginStates : CallFetch(options, plugin)
    \/ \E options \in QueryInputs, plugin \in PluginStates : CallExecuteQuery(options, plugin)
    \/ \E options \in PersistedInputs, plugin \in PluginStates :
           CallExecutePersistedQuery(options, plugin)
    \/ \E queryString \in QueryStrings, plugin \in PluginStates : CallQuery(queryString, plugin)
    \/ \E operationName \in OperationNames, sha256Hash \in Hashes, plugin \in PluginStates :
           CallPersistedQuery(operationName, sha256Hash, plugin)
    \/ \E outcome \in Outcomes : Attempt(outcome)
    \/ Reset

Spec == Init /\ [][Next]_vars

----------------------------------------------------------------------------
(* The convenience API seen from the transport: the same call, attempt and *)
(* reset steps, driven by inputs that vary what reaches the transport      *)
(* (wrapper, method, headers, plugin default headers, data, auth flag).    *)

Wrappers == {"_fetch", "get", "post", "put", "del", "fetchJson", "getJson", "postJson",
             "fetchHtml", "getHtml"}

CustomHeaderSets ==
    {<<>>,
     <<Header("User-Agent", "C")>>,
     <<Spread(Header("Accept", "text/html"), Header("X-Requested-With", "C"))>>,
     <<Header("Content-Type", "text/xml")>>}

DefaultHeaderSets ==
    {<<>>,
     <<Header("User-Agent", "D")>>,
     <<Spread(Header("User-Agent", "D"),
              Spread(Header("Accept", "*/*"), Header("Content-Type", "text/plain")))>>}

\* plugins whose configuration carries (or lacks) a default header set
RequestPlugins ==
    {PluginState(FALSE, <<>>, TRUE, <<>>, <<>>)}
    \cup {[PluginState(TRUE, <<"https://api.example">>, TRUE, <<>>, <<>>)
              EXCEPT !.defaultHeaders = d] : d \in DefaultHeaderSets}

PlainPlugin == PluginState(TRUE, <<"https://api.example">>, TRUE, <<>>, <<>>)

DataInputs ==
    {<<>>, <<DataValue("string", <<"raw">>)>>, <<DataValue("object", <<"{\"a\":1}">>)>>,
     <<DataValue("object", <<"{}">>)>>, <<DataValue("number", <<"0">>)>>,
     <<DataValue("boolean", <<"false">>)>>}

\* options that vary the headers
HeaderInputs ==
    {[NoOptions EXCEPT !.retries = <<n>>, !.retryDelay = <<0>>, !.headers = h] :
        n \in 0..MaxRetries, h \in CustomHeaderSets}

\* options that vary the method, the data, the auth flag and the result mode
DispatchInputs ==
    {[NoOptions EXCEPT !.retries = <<n>>, !.retryDelay = <<0>>, !.method = m,
                       !.data = d, !.useAuth = a, !.parseJson = j] :
        n \in 0..MaxRetries, m \in {<<>>, <<"post">>, <<"patch">>},
        d \in DataInputs, a \in {<<>>, <<TRUE>>}, j \in {<<>>, <<TRUE>>}}

RequestOutcomes ==
    {Thrown(<<"timeout">>), Response(FALSE, "500", BodyBad),
     Response(TRUE, "200", BodyData), Response(TRUE, "200", BodyEmpty)}

NextReq ==
    \/ \E w \in Wrappers, options \in HeaderInputs, plugin \in RequestPlugins :
           CallWrapper(w, options, plugin)
    \/ \E w \in Wrappers, options \in DispatchInputs : CallWrapper(w, options, PlainPlugin)
    \/ \E outcome \in RequestOutcomes : Attempt(outcome)
    \/ Repeat
    \/ Reset

SpecReq == Init /\ [][NextReq]_vars

----------------------------------------------------------------------------
(* The API client: every method resolves its URL with getUrl and hands it  *)
(* to a wrapper of the convenience API.                                    *)

\* a URL string as its pieces, with every slash at its end a piece of its own
Chars(str) ==
    CASE str = ""                       -> <<>>
      [] str = "https://api.example/"   -> <<"https://api.example", "/">>
      [] str = "https://api.example//"  -> <<"https://api.example", "/", "/">>
      [] OTHER                          -> <<str>>

endsWith(str, c) == str # <<>> /\ str[Len(str)] = c
startsWith(str, c) == str # <<>> /\ str[1] = c

Url(u) == [threw |-> FALSE, url |-> u, exc |-> Exception("", <<>>)]
NoUrl(e) == [threw |-> TRUE, url |-> <<>>, exc |-> e]

\* a getUrl that glues base and endpoint together as they come
getUrlNoJoin(base, endpoint) ==
    IF base.threw THEN NoUrl(base.exc)
    ELSE IF base.value = ""
      THEN NoUrl(Exception("ConfigError", <<"Base URL not configured. Check settings[baseUrl].options in config.json">>))
    ELSE Url(Chars(base.value) \o endpoint)

\* APIClient.getUrl(endpoint), base being what getBaseUrl() did
getUrl(base, endpoint) ==
    IF base.threw THEN NoUrl(base.exc)
    ELSE IF base.value = ""
      THEN NoUrl(Exception("ConfigError", <<"Base URL not configured. Check settings[baseUrl].options in config.json">>))
    ELSE LET baseUrl == Chars(base.value)
             stem == IF endsWith(baseUrl, "/") THEN SubSeq(baseUrl, 1, Len(baseUrl) - 1)
                     ELSE baseUrl
             path == IF startsWith(endpoint, "/") THEN endpoint ELSE <<"/">> \o endpoint
         IN  Url(stem \o path)

ApiMethods == {"get", "post", "put", "delete", "getJson", "postJson", "getHtml",
               "graphql", "request"}

\* the endpoint a method resolves: graphql takes options.endpoint || '/graphql'
ApiEndpoint(m, endpoint) ==
    IF m = "graphql" THEN (IF endpoint = <<>> THEN <<"/", "graphql">> ELSE endpoint)
    ELSE endpoint

\* the options the method's wrapper hands to _fetch
ApiOptions(m, options) ==
    CASE m = "delete"  -> del(options)
      [] m = "graphql" -> fetchGraphQLOptions("{viewer{id}}", "{}", options)
      [] m = "request" -> options
      [] OTHER         -> WrapperOptions(m, options)

\* a method that raises before any wrapper runs
ApiRaises(m, a, e) ==
    /\ pc' = "done"
    /\ entry' = m
    /\ via' = "api"
    /\ args' = <<a>>
    /\ conv' = <<[kind |-> "throw", val |-> Undefined, exc |-> e]>>
    /\ held' = <<[options |-> a, defaultHeaders |-> pluginDefaultHeaders(a.plugin)]>>
    /\ UNCHANGED <<opName, url, req, attempts, lastError, trace, log, fetchRes, result,
                   headers, sent>>

\* api.<m>(endpoint, ...). The network namespace the client imports has no
\* member named delete unless the build binds one: bound says whether it did.
CallApi(m, endpoint, options, plugin, bound) ==
    /\ pc = "idle"
    /\ LET a == [endpoint |-> endpoint, options |-> options, plugin |-> plugin]
           u == getUrl(getBaseUrl(plugin), ApiEndpoint(m, endpoint))
       IN  IF u.threw THEN ApiRaises(m, a, u.exc)
           ELSE IF m = "delete" /\ ~bound
             THEN ApiRaises(m, a, Exception("TypeError", <<"network.delete is not a function">>))
           ELSE EnterFetch(m, "api", a, <<>>, u.url, ApiOptions(m, options),
                           pluginDefaultHeaders(plugin))
    /\ UNCHANGED first
    /\ UNCHANGED sideVars

ApiPlugins ==
    {PluginState(FALSE, <<>>, TRUE, <<>>, <<>>),
     PluginState(TRUE, <<"">>, TRUE, <<>>, <<>>),
     PluginState(TRUE, <<"https://api.example">>, FALSE, <<>>, <<>>)}
    \cup {PluginState(TRUE, <<b>>, TRUE, <<>>, <<>>) :
             b \in {"https://api.example", "https://api.example/", "https://api.example//"}}

ApiEndpoints == {<<>>, <<"videos">>, <<"/", "videos">>, <<"/", "/", "videos">>}

ApiInputs ==
    {[NoOptions EXCEPT !.retries = <<n>>, !.retryDelay = <<0>>, !.data = d] :
        n \in 0..MaxRetries, d \in {<<>>, <<DataValue("object", <<"{\"a\":1}">>)>>}}

NextApi ==
    \/ \E m \in ApiMethods, endpoint \in ApiEndpoints, options \in ApiInputs,
          plugin \in ApiPlugins, bound \in BOOLEAN :
           CallApi(m, endpoint, options, plugin, bound)
    \/ \E outcome \in RequestOutcomes : Attempt(outcome)
    \/ Reset

SpecApi == Init /\ [][NextApi]_vars

----------------------------------------------------------------------------
(* The auth state helpers: isTokenValid, refreshAuthToken, clearAuthState  *)
(* over plugin.state and the clock.                                        *)

\* bodies the token endpoint may answer with
TokenFull  == "{\"accessToken\":\"T1\",\"userId\":\"U1\"}"
TokenAlt   == "{\"token\":\"T2\",\"user_id\":\"U2\"}"
TokenMixed == "{\"accessToken\":\"\",\"token\":\"T2\",\"userId\":\"U1\"}"
TokenNone  == "{}"
TokenBodies == {BodyBad, BodyNull, TokenFull, TokenAlt, TokenMixed, TokenNone}

TokenData(accessToken, token, userId, user_id) ==
    [ok |-> TRUE, isNull |-> FALSE, accessToken |-> accessToken, token |-> token,
     userId |-> userId, user_id |-> user_id]

\* JSON.parse(resp.body) of a token answer
TokenParse(body) ==
    CASE body = TokenFull  -> TokenData(<<"T1">>, <<>>, <<"U1">>, <<>>)
      [] body = TokenAlt   -> TokenData(<<>>, <<"T2">>, <<>>, <<"U2">>)
      [] body = TokenMixed -> TokenData(<<"">>, <<"T2">>, <<"U1">>, <<>>)
      [] body = TokenNone  -> TokenData(<<>>, <<>>, <<>>, <<>>)
      [] body = BodyNull   -> [TokenData(<<>>, <<>>, <<>>, <<>>) EXCEPT !.isNull = TRUE]
      [] OTHER             -> [TokenData(<<>>, <<>>, <<>>, <<>>) EXCEPT !.ok = FALSE]

\* a || b || '' on two optional strings
OrElse(a, b) ==
    IF Default(a, "") # "" THEN a[1] ELSE IF Default(b, "") # "" THEN b[1] ELSE ""

\* the values isTokenValid can return
JsUndefined == [t |-> "undefined", s |-> "", b |-> FALSE]
JsString(str) == [t |-> "string", s |-> str, b |-> FALSE]
JsBoolean(b) == [t |-> "boolean", s |-> "", b |-> b]
JsTruthy(v) ==
    CASE v.t = "boolean" -> v.b
      [] v.t = "string"  -> v.s # ""
      [] OTHER           -> FALSE

\* a validity test that does not look at the expiration
isTokenValidIgnoresExpiry(state, now) ==
    IF state.authToken = <<>> THEN JsUndefined
    ELSE IF state.authToken[1] = "" THEN JsString("")
    ELSE JsBoolean(TRUE)

\* isTokenValid(): plugin.state.authToken && plugin.state.authTokenExpiration > currentTime
isTokenValid(state, now) ==
    IF state.authToken = <<>> THEN JsUndefined
    ELSE IF state.authToken[1] = "" THEN JsString("")
    ELSE JsBoolean(state.authTokenExpiration # <<>> /\ state.authTokenExpiration[1] > now)

TryEnded(kind, state) == [kind |-> kind, state |-> state]

\* a try block that stores an empty token before it looks at the response
refreshTryWritesFirst(state, now, base, resp) ==
    LET data == TokenParse(resp.body)
        blank == [state EXCEPT !.authToken = <<"">>]
    IN  IF base.threw \/ resp.threw THEN TryEnded("throw", state)
        ELSE IF ~resp.isOk \/ ~data.ok \/ data.isNull THEN TryEnded("throw", blank)
        ELSE TryEnded("return",
                 [authToken |-> <<OrElse(data.accessToken, data.token)>>,
                  userId |-> <<OrElse(data.userId, data.user_id)>>,
                  authTokenExpiration |-> <<now + TokenLifetime>>])

\* the try block of refreshAuthToken: how it ends and plugin.state at that point
refreshTry(state, now, base, resp) ==
    LET data == TokenParse(resp.body) IN
    IF base.threw THEN TryEnded("throw", state)
    ELSE IF resp.threw THEN TryEnded("throw", state)
    ELSE IF ~resp.isOk THEN TryEnded("throw", state)
    ELSE IF ~data.ok THEN TryEnded("throw", state)
    ELSE IF data.isNull THEN TryEnded("throw", state)
    ELSE TryEnded("return",
             [authToken |-> <<OrElse(data.accessToken, data.token)>>,
              userId |-> <<OrElse(data.userId, data.user_id)>>,
              authTokenExpiration |-> <<now + TokenLifetime>>])

\* refreshAuthToken(): the try block, and the catch that only logs
refreshAuthToken(state, now, base, resp) ==
    LET try == refreshTry(state, now, base, resp) IN
    [state |-> try.state,
     raised |-> FALSE,
     logged |-> IF try.kind = "throw" THEN "Error refreshing token: " ELSE "Auth token refreshed"]

\* clearAuthState()
clearAuthState(state) ==
    [authToken |-> <<"">>, userId |-> <<"">>, authTokenExpiration |-> <<0>>]

\* the token request was answered so that the refresh goes through
RefreshSucceeds(base, resp) ==
    /\ ~base.threw /\ ~resp.threw /\ resp.isOk
    /\ resp.body \in {TokenFull, TokenAlt, TokenMixed, TokenNone}

\* the token and the user id a token answer yields
YieldedToken(body) ==
    CASE body = TokenFull -> "T1" [] body \in {TokenAlt, TokenMixed} -> "T2" [] OTHER -> ""
YieldedUser(body) ==
    CASE body \in {TokenFull, TokenMixed} -> "U1" [] body = TokenAlt -> "U2" [] OTHER -> ""

TokenOutcomes ==
    {Thrown(<<"timeout">>), Response(FALSE, "401", BodyBad)}
    \cup {Response(TRUE, "200", b) : b \in TokenBodies}

AuthPlugins ==
    {PluginState(FALSE, <<>>, TRUE, <<>>, <<>>),
     PluginState(TRUE, <<"https://api.example">>, TRUE, <<>>, <<>>),
     PluginState(TRUE, <<"https://api.example">>, FALSE, <<>>, <<>>)}

CallRefreshAuthToken(plugin, resp) ==
    /\ LET base == getBaseUrl(plugin)
           r == refreshAuthToken(auth.state, auth.now, base, resp)
           done == RefreshSucceeds(base, resp)
       IN  auth' = [auth EXCEPT
                      !.state = r.state,
                      !.last = <<[before |-> auth.state, at |-> auth.now, resp |-> resp,
                                  baseThrew |-> base.threw, raised |-> r.raised]>>,
                      !.refreshedAt = IF done THEN <<auth.now>> ELSE @,
                      !.cleared = IF done /\ YieldedToken(resp.body) # "" THEN FALSE ELSE @]
    /\ UNCHANGED <<callVars, cfg, home, pagers, catalog, job>>

CallClearAuthState ==
    /\ auth' = [auth EXCEPT !.state = clearAuthState(auth.state), !.last = <<>>,
                            !.cleared = TRUE]
    /\ UNCHANGED <<callVars, cfg, home, pagers, catalog, job>>

\* the clock advances by d milliseconds
Tick(d) ==
    /\ auth.ticks < MaxTicks
    /\ auth' = [auth EXCEPT !.now = @ + d, !.ticks = @ + 1, !.last = <<>>]
    /\ UNCHANGED <<callVars, cfg, home, pagers, catalog, job>>

NextAuth ==
    \/ \E plugin \in AuthPlugins, resp \in TokenOutcomes : CallRefreshAuthToken(plugin, resp)
    \/ CallClearAuthState
    \/ \E d \in {1, TokenLifetime \div 2} : Tick(d)

SpecAuth == Init /\ [][NextAuth]_vars

----------------------------------------------------------------------------
(* The submit tool's catalog update: updateSourcesJson on the list held in *)
(* sources.json of a repository directory.                                 *)

RECURSIVE SeqsUpTo(_, _)
SeqsUpTo(S, n) ==
    IF n = 0 THEN {<<>>}
    ELSE LET shorter == SeqsUpTo(S, n - 1)
         IN  shorter \cup {Append(q, x) : q \in shorter, x \in S}

CatalogEntry(id, name, version, sourceUrl, installUrl) ==
    [id |-> id, name |-> name, version |-> version, sourceUrl |-> sourceUrl,
     _installUrl |-> installUrl]

\* dist/config.json of the plugin being submitted
PluginConfig(id, name, sourceUrl) ==
    [id |-> id, name |-> name, version |-> 1, sourceUrl |-> sourceUrl]

PluginConfigs ==
    {PluginConfig(id, name, <<"u">>) : id \in {"a", "b"}, name \in {"A", "B"}}
    \cup {PluginConfig("c", "C", <<>>)}

\* entries a sources.json may already hold
ListedEntries ==
    {CatalogEntry(id, name, 0, <<"v">>, <<"v">>) : id \in {"a", "b"}, name \in {"A", "B"}}

CatalogLists == SeqsUpTo(ListedEntries, MaxCatalog)

\* (s) => s.id === pluginConfig.id || s.name === pluginConfig.name
SameIdOrName(item, pluginConfig) ==
    item.id = pluginConfig.id \/ item.name = pluginConfig.name

\* a search that compares ids only
findIndexById(sources, pluginConfig) ==
    IF \E i \in 1..Len(sources) : sources[i].id = pluginConfig.id
    THEN (CHOOSE i \in 1..Len(sources) :
              /\ sources[i].id = pluginConfig.id
              /\ \A j \in 1..(i - 1) : sources[j].id # pluginConfig.id) - 1
    ELSE -1

\* sources.findIndex(...): the 0-based index of the first match, or -1
findIndex(sources, pluginConfig) ==
    IF \E i \in 1..Len(sources) : SameIdOrName(sources[i], pluginConfig)
    THEN (CHOOSE i \in 1..Len(sources) :
              /\ SameIdOrName(sources[i], pluginConfig)
              /\ \A j \in 1..(i - 1) : ~SameIdOrName(sources[j], pluginConfig)) - 1
    ELSE -1

\* updateSourcesJson on a list that was read: the list written and the result
updateSourcesJson(sources, pluginConfig) ==
    LET existingIndex == findIndex(sources, pluginConfig)
        item == CatalogEntry(pluginConfig.id, pluginConfig.name, pluginConfig.version,
                             pluginConfig.sourceUrl, pluginConfig.sourceUrl)
    IN  [sources |-> IF existingIndex >= 0
                     THEN [sources EXCEPT ![existingIndex + 1] = item]
                     ELSE Append(sources, item),
         result |-> IF existingIndex >= 0 THEN "update" ELSE "add"]

\* a repository directory with some sources.json is taken up
LoadCatalog(sources) ==
    /\ catalog' = [sources |-> sources, last |-> <<>>]
    /\ UNCHANGED <<callVars, cfg, home, pagers, auth, job>>

CallUpdateSourcesJson(pluginConfig) ==
    /\ Len(catalog.sources) <= MaxCatalog
    /\ LET r == updateSourcesJson(catalog.sources, pluginConfig) IN
       catalog' = [sources |-> r.sources,
                   last |-> <<[before |-> catalog.sources, config |-> pluginConfig,
                               result |-> r.result,
                               again |-> /\ catalog.last # <<>>
                                         /\ catalog.last[1].config = pluginConfig]>>]
    /\ UNCHANGED <<callVars, cfg, home, pagers, auth, job>>

NextCatalog ==
    \/ \E sources \in CatalogLists : LoadCatalog(sources)
    \/ \E pluginConfig \in PluginConfigs : CallUpdateSourcesJson(pluginConfig)

SpecCatalog == Init /\ [][NextCatalog]_vars

----------------------------------------------------------------------------
(* The submit workflow: submit() step by step, on one temporary clone.     *)

\* process.exit(code): the process ends here; no finally block runs after it
Exit(j, code) == [j EXCEPT !.pc = "exited", !.exitCode = <<code>>]

\* what the cloned fork holds as sources.json
ClonedFiles ==
    {[file |-> "missing", sources |-> <<>>], [file |-> "unparsable", sources |-> <<>>]}
    \cup {[file |-> "list", sources |-> l] : l \in SeqsUpTo(ListedEntries, 1)}

\* steps 1 to 4: dependencies, GitHub auth, dist/config.json, the fork
Prepare(ok, pluginConfig) ==
    /\ job.pc = "idle"
    /\ job' = IF ok THEN [job EXCEPT !.pc = "forked", !.config = <<pluginConfig>>]
              ELSE Exit(job, 1)
    /\ UNCHANGED <<callVars, cfg, home, pagers, auth, catalog>>

\* step 5: cloneRepository(forkRepo)
CloneRepository(ok, cloned) ==
    /\ job.pc = "forked"
    /\ job' = IF ok
              THEN [job EXCEPT !.pc = "cloned", !.tempDir = TRUE, !.cloned = TRUE,
                               !.file = cloned.file, !.sources = cloned.sources]
              ELSE Exit(job, 1)
    /\ UNCHANGED <<callVars, cfg, home, pagers, auth, catalog>>

\* step 6: updateSourcesJson(tempDir, pluginConfig), inside the try of submit
UpdateSources(written) ==
    /\ job.pc = "cloned"
    /\ job' = IF job.file = "missing" THEN Exit(job, 1)
              ELSE IF job.file = "unparsable" THEN Exit(job, 1)
              ELSE IF ~written THEN Exit(job, 1)
              ELSE LET r == updateSourcesJson(job.sources, job.config[1]) IN
                   [job EXCEPT !.pc = "updated", !.sources = r.sources,
                               !.action = <<r.result>>]
    /\ UNCHANGED <<callVars, cfg, home, pagers, auth, catalog>>

\* step 7: commitAndPush(tempDir, pluginConfig.name, action)
CommitAndPush(ok) ==
    /\ job.pc = "updated"
    /\ job' = IF ok THEN [job EXCEPT !.pc = "pushed", !.branchName = <<"add-plugin">>]
              ELSE Exit(job, 1)
    /\ UNCHANGED <<callVars, cfg, home, pagers, auth, catalog>>

\* step 8: createPullRequest(...), which returns null when gh fails
CreatePullRequest(ok) ==
    /\ job.pc = "pushed"
    /\ job' = [job EXCEPT !.pc = "finally", !.prUrl = IF ok THEN <<"pr">> ELSE <<>>]
    /\ UNCHANGED <<callVars, cfg, home, pagers, auth, catalog>>

\* step 9: cleanup(tempDir) in the finally block; a failing rmSync is swallowed
Cleanup(removed) ==
    /\ job.pc = "finally"
    /\ job' = [job EXCEPT !.pc = "summary", !.cleaned = TRUE,
                          !.tempDir = IF removed THEN FALSE ELSE @]
    /\ UNCHANGED <<callVars, cfg, home, pagers, auth, catalog>>

\* the summary is logged and submit() returns
Summary ==
    /\ job.pc = "summary"
    /\ job' = [job EXCEPT !.pc = "ended", !.exitCode = <<0>>]
    /\ UNCHANGED <<callVars, cfg, home, pagers, auth, catalog>>

\* npm run submit is started again
RunAgain ==
    /\ job.pc \in {"ended", "exited"}
    /\ job' = JobInit
    /\ UNCHANGED <<callVars, cfg, home, pagers, auth, catalog>>

NextSubmit ==
    \/ \E ok \in BOOLEAN, pluginConfig \in PluginConfigs : Prepare(ok, pluginConfig)
    \/ \E ok \in BOOLEAN, cloned \in ClonedFiles : CloneRepository(ok, cloned)
    \/ \E written \in BOOLEAN : UpdateSources(written)
    \/ \E ok \in BOOLEAN : CommitAndPush(ok)
    \/ \E ok \in BOOLEAN : CreatePullRequest(ok)
    \/ \E removed \in BOOLEAN : Cleanup(removed)
    \/ Summary
    \/ RunAgain

SpecSubmit == Init /\ [][NextSubmit]_vars

----------------------------------------------------------------------------
(* The base-URL resolver on its own: the host sets the plugin's            *)
(* configuration and settings, the plugin asks for the base URL.           *)

\* the option lists of the baseUrl setting (an option may be empty)
OptionLists == SeqsUpTo({"", "https://a.example", "https://b.example"}, MaxOptions)

ConfigPlugins ==
    {PluginState(c, o, t, sel, d) :
        c \in BOOLEAN, o \in OptionLists, t \in BOOLEAN,
        sel \in {<<>>, <<"">>, <<"https://sel.example">>},
        d \in {<<>>, <<"">>, <<"https://dflt.example">>}}

\* the host installs a configuration and settings
Configure(plugin) ==
    /\ cfg = <<>>
    /\ cfg' = <<[plugin |-> plugin, answer |-> <<>>]>>
    /\ UNCHANGED <<callVars, home, pagers, toolVars>>

\* getBaseUrl()
CallGetBaseUrl ==
    /\ cfg # <<>>
    /\ cfg[1].answer = <<>>
    /\ cfg' = <<[cfg[1] EXCEPT !.answer = <<getBaseUrl(cfg[1].plugin)>>]>>
    /\ UNCHANGED <<callVars, home, pagers, toolVars>>

\* the plugin is disabled
Unconfigure ==
    /\ cfg # <<>>
    /\ cfg[1].answer # <<>>
    /\ cfg' = <<>>
    /\ UNCHANGED <<callVars, home, pagers, toolVars>>

NextConfig ==
    \/ \E plugin \in ConfigPlugins : Configure(plugin)
    \/ CallGetBaseUrl
    \/ Unconfigure

SpecConfig == Init /\ [][NextConfig]_vars

----------------------------------------------------------------------------
(* The plugin script: source.enable, source.login and the async            *)
(* source.getHome, whose caller gets a promise while the body runs on.     *)

\* a ".thumb a" link: its href and its img child, if any, with alt and src
Anchor(href, img) == [href |-> href, img |-> img]
Img(alt, src) == [alt |-> alt, src |-> src]
Anchors ==
    {Anchor(h, i) : h \in {"/videos/1", "/videos/2"},
                    i \in {<<>>, <<Img("", "")>>, <<Img("Clip", "t.jpg")>>}}

\* the pages the site may answer with, as their lists of thumbnail links
Pages == SeqsUpTo(Anchors, MaxThumbs)

\* a promise as its caller holds it, and the object getHome's body returns
Promise(state, value) == [t |-> "promise", state |-> state, value |-> value]
HomeValue(results) == [t |-> "object", results |-> <<results>>, nextPage |-> "null"]

\* value.results as JavaScript reads it: a promise has no such property
ResultsOf(value) == IF value.t = "object" THEN value.results ELSE <<>>

\* { title, url: href, thumbnail } for one link
VideoEntry(a) ==
    [title |-> IF a.img # <<>> /\ a.img[1].alt # "" THEN a.img[1].alt ELSE "No title",
     url |-> a.href,
     thumbnail |-> IF a.img # <<>> THEN a.img[1].src ELSE ""]

\* the results array built by the forEach over the links
getHomeResults(page) == [i \in 1..Len(page) |-> VideoEntry(page[i])]

\* source.http.fetch: the default headers, and the cookie when there is one
httpFetch(u, cookies) ==
    [url |-> u,
     headers |-> IF cookies # ""
                 THEN Spread(Header("User-Agent", "Mozilla/5.0"), Header("Cookie", cookies))
                 ELSE Header("User-Agent", "Mozilla/5.0")]

\* source.enable(info, bridge): logs
Enable ==
    /\ home.pc = "off"
    /\ home' = [home EXCEPT !.pc = "enabled"]
    /\ UNCHANGED <<callVars, cfg, pagers, toolVars>>

\* source.login, once its request has been answered with a set-cookie value
Login(setCookie) ==
    /\ home.pc = "enabled"
    /\ home.cookies = ""
    /\ home' = [home EXCEPT !.cookies = setCookie]
    /\ UNCHANGED <<callVars, cfg, pagers, toolVars>>

\* source.getHome(): runs to the first await and hands its caller a promise
getHome ==
    /\ home.pc = "enabled"
    /\ home' = [home EXCEPT !.pc = "fetch",
                             !.request = <<httpFetch("https://xhamster.com/videos", home.cookies)>>,
                             !.promise = <<Promise("pending", <<>>)>>,
                             !.returned = <<Promise("pending", <<>>)>>]
    /\ UNCHANGED <<callVars, cfg, pagers, toolVars>>

\* await this.http.fetch(url) resolves
FetchResolves(page) ==
    /\ home.pc = "fetch"
    /\ home' = [home EXCEPT !.pc = "text", !.page = <<page>>]
    /\ UNCHANGED <<callVars, cfg, pagers, toolVars>>

\* await this.http.fetch(url) rejects: so does getHome's promise
FetchRejects ==
    /\ home.pc = "fetch"
    /\ home' = [home EXCEPT !.pc = "settled", !.promise = <<Promise("rejected", <<>>)>>]
    /\ UNCHANGED <<callVars, cfg, pagers, toolVars>>

\* await res.text() resolves; the body parses, collects and returns
TextResolves ==
    /\ home.pc = "text"
    /\ home' = [home EXCEPT
                   !.pc = "settled",
                   !.promise = <<Promise("fulfilled",
                                         <<HomeValue(getHomeResults(home.page[1]))>>)>>]
    /\ UNCHANGED <<callVars, cfg, pagers, toolVars>>

\* the caller lets go of what it was handed
Release ==
    /\ home.pc = "settled"
    /\ home' = [home EXCEPT !.pc = "enabled", !.returned = <<>>, !.request = <<>>,
                             !.page = <<>>, !.promise = <<>>]
    /\ UNCHANGED <<callVars, cfg, pagers, toolVars>>

NextHome ==
    \/ Enable
    \/ \E setCookie \in {"sid=1"} : Login(setCookie)
    \/ getHome
    \/ \E page \in Pages : FetchResolves(page)
    \/ FetchRejects
    \/ TextResolves
    \/ Release

SpecHome == Init /\ [][NextHome]_vars

----------------------------------------------------------------------------
(* The stub pagers. Besides the fields page and hasMorePages a pager here  *)
(* carries what its caller has seen: the number of nextPage() calls, the   *)
(* list the last one returned, the answer of the last hasMore() and the    *)
(* number of nextPage() calls made before that answer.                     *)

\* field initialisers and constructor
NewPager ==
    [page |-> 0, hasMorePages |-> TRUE,
     calls |-> 0, returned |-> <<>>, asked |-> <<>>, askedAt |-> 0]

\* hasMore(): return this.hasMorePages
hasMore(p) == p.hasMorePages

\* a nextPage that never clears hasMorePages
nextPageLeavesMore(p) ==
    [p EXCEPT !.page = p.page + 1, !.calls = p.calls + 1, !.returned = << <<>> >>]

\* nextPage(): this.page++; this.hasMorePages = false; return []
nextPage(p) ==
    [p EXCEPT !.page = p.page + 1, !.hasMorePages = FALSE,
              !.calls = p.calls + 1, !.returned = << <<>> >>]

Construct(k) ==
    /\ pagers[k] = <<>>
    /\ pagers' = [pagers EXCEPT ![k] = <<NewPager>>]
    /\ UNCHANGED <<callVars, cfg, home, toolVars>>

CallHasMore(k) ==
    /\ pagers[k] # <<>>
    /\ pagers' = [pagers EXCEPT ![k] = <<[pagers[k][1] EXCEPT
                                            !.asked = <<hasMore(pagers[k][1])>>,
                                            !.askedAt = pagers[k][1].calls]>>]
    /\ UNCHANGED <<callVars, cfg, home, toolVars>>

CallNextPage(k) ==
    /\ pagers[k] # <<>>
    /\ pagers[k][1].calls < MaxPages
    /\ pagers' = [pagers EXCEPT ![k] = <<nextPage(pagers[k][1])>>]
    /\ UNCHANGED <<callVars, cfg, home, toolVars>>

NextPager ==
    \/ \E k \in PagerKinds : Construct(k)
    \/ \E k \in PagerKinds : CallHasMore(k)
    \/ \E k \in PagerKinds : CallNextPage(k)

SpecPager == Init /\ [][NextPager]_vars

----------------------------------------------------------------------------
(* Vocabulary of the properties *)

TransportTags == {"http.GET", "http.POST", "http.request"}

Count(seq, S) == Cardinality({i \in 1..Len(seq) : seq[i] \in S})

TransportCalls == Count(log, TransportTags)
Waits == Count(log, {"wait"})

Last(seq) == seq[Len(seq)]

Min(a, b) == IF a <= b THEN a ELSE b

IsPrefix(p, s) == Len(p) <= Len(s) /\ SubSeq(s, 1, Len(p)) = p
IsSuffix(p, s) == Len(p) <= Len(s) /\ SubSeq(s, Len(s) - Len(p) + 1, Len(s)) = p

FetchEnded == pc = "done" /\ fetchRes # <<>>
InFetch == pc = "loop" \/ FetchEnded

\* bodies that JSON.parse rejects, bodies that decode to null, and bodies
\* whose payload carries a (truthy) errors list
UnparsableBodies == {BodyBad}
NullBodies == {BodyNull}
ErrorsBodies == {BodyErrData, BodyErrMarker}

\* an attempt fails when it ends by throwing: the transport throws, the
\* status is not ok under throwOnError, or the JSON decoding of an ok body
\* fails, yields null, or yields a payload with errors
AttemptFails(o) ==
    \/ o.threw
    \/ ~o.threw /\ ~o.isOk /\ req.throwOnError
    \/ ~o.threw /\ o.isOk /\ req.parseJson
         /\ o.body \in UnparsableBodies \cup NullBodies \cup ErrorsBodies

\* index of the first attempt of the trace that does not fail; beyond the
\* retry budget when every attempt so far failed
FirstNotFailing ==
    IF \E i \in 1..Len(trace) : ~AttemptFails(trace[i])
    THEN CHOOSE i \in 1..Len(trace) :
             ~AttemptFails(trace[i]) /\ \A j \in 1..(i - 1) : AttemptFails(trace[j])
    ELSE req.retries + 2

----------------------------------------------------------------------------
(* C1: a call of _fetch with retries = r makes min(r + 1, k) transport     *)
(* calls, k being the index of the first attempt that does not fail by     *)
(* throwing; every consumed outcome is one transport call, only the last   *)
(* attempt made can be a non-failing one, and while the loop runs fewer    *)
(* than r + 1 calls, all failed, have been made.                           *)
C1_AttemptCount ==
    InFetch =>
        /\ TransportCalls = Len(trace)
        /\ \A i \in 1..(Len(trace) - 1) : AttemptFails(trace[i])
        /\ FetchEnded => TransportCalls = Min(req.retries + 1, FirstNotFailing)
        /\ pc = "loop" =>
               /\ TransportCalls < req.retries + 1
               /\ \A i \in 1..Len(trace) : AttemptFails(trace[i])

\* the second of four budgeted attempts succeeded: two calls were made
C1_Witness ==
    /\ FetchEnded
    /\ req.retries = 3
    /\ TransportCalls = 2
    /\ FirstNotFailing = 2

----------------------------------------------------------------------------
\* the [error, data] pair a finished GraphQL-layer call returned
GraphQLEntries == {"executeQuery", "executePersistedQuery"}
GraphQLReturned == pc = "done" /\ entry \in GraphQLEntries /\ result # <<>>
ReturnedError == result[1].error
ReturnedData == result[1].data

ErrDataResponse == Response(TRUE, "200", BodyErrData)
ValueX1 == [t |-> "value", errors |-> ErrUndefined, data |-> "{\"x\":1}"]

(* C2: a persisted query whose GET responses are ok and decode to          *)
(* {errors:[{message:A},{message:B}], data:{x:1}} returns an error with    *)
(* code GQL_ERROR and message "A, B", together with the data {x:1}.        *)
C2_PersistedErrorsWithData ==
    ( /\ pc = "done"
      /\ entry = "executePersistedQuery"
      /\ trace # <<>>
      /\ \A i \in 1..Len(trace) : trace[i] = ErrDataResponse )
    => /\ result # <<>>
       /\ ReturnedError # <<>>
       /\ ReturnedError[1].code = "GQL_ERROR"
       /\ ReturnedError[1].message = <<"A", ", ", "B">>
       /\ ReturnedData = ValueX1

----------------------------------------------------------------------------
\* the serialized errors list of the error-carrying bodies, written out
SerializedErrors(body) ==
    IF body = BodyErrData
    THEN <<"[", "{\"message\":\"", "A", "\"}", ",", "{\"message\":\"", "B", "\"}", "]">>
    ELSE <<"[", "{\"message\":\"", "GraphQL errors", "\"}", "]">>

\* bodies whose payload has an errors field, truthy or not
ErrorsFieldBodies == ErrorsBodies \cup {BodyErrFalsy}

LastIsOkWith(bodies) ==
    /\ trace # <<>>
    /\ ~Last(trace).threw
    /\ Last(trace).isOk
    /\ Last(trace).body \in bodies

(* C3 as stated: when the transport returns an ok response whose JSON      *)
(* payload has an errors field and parseJson is set, _fetch with           *)
(* throwOnError=true fails with an APIError whose message contains the     *)
(* serialized errors.                                                      *)
C3_FailsWithAPIError ==
    ( /\ FetchEnded
      /\ req.parseJson
      /\ req.throwOnError
      /\ LastIsOkWith(ErrorsBodies) )
    => /\ fetchRes[1].kind = "throw"
       /\ fetchRes[1].exc.kind = "APIError"
       /\ IsSuffix(SerializedErrors(Last(trace).body), fetchRes[1].exc.message)

(* C3 amended: with parseJson set, an ok response whose payload has a      *)
(* truthy errors field makes that attempt fail with an APIError whose      *)
(* message is the serialized errors; the error is caught and counted       *)
(* against the retry budget, and when it was the last attempt _fetch with  *)
(* throwOnError=true fails with a NetworkError whose message ends with     *)
(* those serialized errors.                                                *)
C3_AttemptFailsWithAPIError ==
    ( /\ InFetch
      /\ req.parseJson
      /\ LastIsOkWith(ErrorsBodies) )
    => /\ lastError = <<Exception("APIError", SerializedErrors(Last(trace).body))>>
       /\ attempts = req.retries + 1 - Len(trace)
       /\ (FetchEnded /\ req.throwOnError) =>
              /\ attempts = 0
              /\ fetchRes[1].kind = "throw"
              /\ fetchRes[1].exc.kind = "NetworkError"
              /\ IsSuffix(SerializedErrors(Last(trace).body), fetchRes[1].exc.message)

\* a direct _fetch whose two budgeted attempts both met an errors payload
C3_Witness ==
    /\ FetchEnded
    /\ entry = "_fetch"
    /\ req.parseJson
    /\ req.throwOnError
    /\ Len(trace) = 2
    /\ LastIsOkWith(ErrorsBodies)

----------------------------------------------------------------------------
\* the GraphQL-layer call in flight passed its validation
ValidInput ==
    IF entry = "executeQuery" THEN Default(args[1].query, "") # ""
    ELSE Default(args[1].operationName, "") # "" /\ Default(args[1].sha256Hash, "") # ""

\* a failure was raised inside the try block of the finished GraphQL-layer
\* call: _fetch threw, getBaseUrl threw (the call passed validation and never
\* reached _fetch), or _fetch handed null to executePersistedQuery, whose
\* read of null.data throws
FetchThrew == fetchRes # <<>> /\ fetchRes[1].kind = "throw"
BaseUrlThrew == fetchRes = <<>> /\ ValidInput
NullDataRead ==
    /\ entry = "executePersistedQuery"
    /\ fetchRes # <<>>
    /\ fetchRes[1].kind = "return"
    /\ fetchRes[1].val.t = "null"
RaisedInside == FetchThrew \/ BaseUrlThrew \/ NullDataRead

(* C4 as stated: executeQuery and executePersistedQuery always return an   *)
(* (error, data) pair, and a failure raised inside is returned as an error *)
(* with code EXCEPTION.                                                    *)
C4_RaisedIsException ==
    (pc = "done" /\ entry \in GraphQLEntries) =>
        /\ result # <<>>
        /\ RaisedInside => (ReturnedError # <<>> /\ ReturnedError[1].code = "EXCEPTION")

(* C4 amended: executeQuery and executePersistedQuery always return an     *)
(* (error, data) pair; a failure raised inside is returned, with null      *)
(* data, as an error with code EXCEPTION, except that executeQuery returns *)
(* it with code GQL_ERROR when the failure's message contains the text     *)
(* "GraphQL errors"; a failure of _fetch is returned with its message.     *)
C4_RaisedIsReturned ==
    (pc = "done" /\ entry \in GraphQLEntries) =>
        /\ result # <<>>
        /\ RaisedInside =>
               /\ ReturnedError # <<>>
               /\ ReturnedData = Null
               /\ ReturnedError[1].code =
                      IF entry = "executeQuery"
                         /\ includes(ReturnedError[1].message, "GraphQL errors")
                      THEN "GQL_ERROR" ELSE "EXCEPTION"
               /\ FetchThrew => ReturnedError[1].message = fetchRes[1].exc.message

\* executeQuery caught the failure of an exhausted _fetch and returned it
C4_Witness ==
    /\ GraphQLReturned
    /\ entry = "executeQuery"
    /\ FetchThrew
    /\ ReturnedError # <<>>
    /\ ReturnedError[1].code = "EXCEPTION"

----------------------------------------------------------------------------
\* every budgeted attempt was made and failed
AllAttemptsFailed ==
    /\ FetchEnded
    /\ Len(trace) = req.retries + 1
    /\ \A i \in 1..Len(trace) : AttemptFails(trace[i])

\* the message of the failure an attempt's outcome leads to, where the
\* source fixes it
UnderlyingMessage(o) ==
    IF o.threw THEN o.message
    ELSE IF ~o.isOk THEN <<"Request to ">> \o url \o <<" failed with status ", o.code>>
    ELSE IF o.body \in ErrorsBodies THEN SerializedErrors(o.body)
    ELSE lastError[1].message

(* C5: when all retries + 1 attempts have failed, _fetch with              *)
(* throwOnError=true fails with a NetworkError whose message names the url *)
(* and the attempt count retries + 1 and ends with the message of the last *)
(* underlying error; with throwOnError=false it returns null.              *)
C5_Exhaustion ==
    AllAttemptsFailed =>
        IF req.throwOnError
        THEN /\ fetchRes[1].kind = "throw"
             /\ fetchRes[1].exc.kind = "NetworkError"
             /\ fetchRes[1].exc.message =
                    <<"Request to ">> \o url
                    \o <<" failed after ", ToString(req.retries + 1), " attempts: ">>
                    \o UnderlyingMessage(Last(trace))
             /\ lastError # <<>>
             /\ lastError[1].message = UnderlyingMessage(Last(trace))
        ELSE /\ fetchRes[1].kind = "return"
             /\ fetchRes[1].val = Null

\* two attempts budgeted, both failed, the failure is raised
C5_Witness ==
    /\ AllAttemptsFailed
    /\ req.throwOnError
    /\ req.retries = 1
    /\ TransportCalls = 2

----------------------------------------------------------------------------
NotOk(o) == ~o.threw /\ ~o.isOk

(* C6: with throwOnError=false the first attempt whose response is not ok  *)
(* ends _fetch at once with null: it is the last transport call, nothing   *)
(* (no wait, no JSON or HTML parsing) follows it, and it is not counted   *)
(* against the retry budget.                                               *)
C6_NotOkReturnsNull ==
    (InFetch /\ ~req.throwOnError) =>
        \A i \in 1..Len(trace) :
            NotOk(trace[i]) =>
                /\ i = Len(trace)
                /\ FetchEnded
                /\ fetchRes[1].kind = "return"
                /\ fetchRes[1].val = Null
                /\ TransportCalls = i
                /\ Last(log) \in TransportTags
                /\ Count(log, {"JSON.parse", "domParser.parseFromString"})
                       = Count(SubSeq(trace, 1, i - 1), {o \in Outcomes : ~o.threw /\ o.isOk})
                /\ attempts = req.retries + 1 - (i - 1)

\* a failed parse, a wait, then a non-ok response that ends the call
C6_Witness ==
    /\ FetchEnded
    /\ ~req.throwOnError
    /\ req.parseJson
    /\ Len(trace) = 2
    /\ NotOk(trace[2])
    /\ req.retries = 3

----------------------------------------------------------------------------
\* every wait of the log stands between two transport calls
WaitsAreBetweenAttempts ==
    \A i \in 1..Len(log) :
        log[i] = "wait" =>
            /\ \E j \in 1..(i - 1) : log[j] \in TransportTags
            /\ (pc = "done" => \E j \in (i + 1)..Len(log) : log[j] \in TransportTags)
            /\ (i < Len(log) => log[i + 1] \in TransportTags)

(* C7: the blocking wait happens only between two consecutive attempts:    *)
(* with retryDelay > 0 a finished call has made one wait fewer than        *)
(* transport calls and none after its last attempt (while the loop runs,   *)
(* each failed attempt has been followed by its wait); with retries = 0    *)
(* there is exactly one attempt and no wait; with retryDelay = 0 there is  *)
(* never a wait.                                                           *)
C7_WaitsBetweenAttempts ==
    InFetch =>
        /\ WaitsAreBetweenAttempts
        /\ req.retryDelay > 0 =>
               /\ FetchEnded => (Waits = TransportCalls - 1 /\ Last(log) # "wait")
               /\ pc = "loop" => Waits = TransportCalls
        /\ req.retryDelay = 0 => Waits = 0
        /\ req.retries = 0 => (Waits = 0 /\ (FetchEnded => TransportCalls = 1))

\* all four attempts failed: three waits, none after the last attempt
C7_Witness ==
    /\ FetchEnded
    /\ req.retryDelay > 0
    /\ TransportCalls = 4
    /\ Waits = 3
    /\ AllAttemptsFailed

----------------------------------------------------------------------------
InvalidQueryPair ==
    Pair(<<GraphQLError("INVALID_QUERY", <<"Query string is required">>, ErrUndefined, <<>>)>>,
         Null)

(* C8: executeQuery called with an empty or absent query string returns an *)
(* error with code INVALID_QUERY and null data and makes no transport call *)
(* and no wait, whatever the endpoint, the retries and the plugin          *)
(* configuration are.                                                      *)
C8_EmptyQueryFailsFast ==
    (entry = "executeQuery" /\ Default(args[1].query, "") = "") =>
        /\ pc = "done"
        /\ result = <<InvalidQueryPair>>
        /\ ReturnedError[1].code = "INVALID_QUERY"
        /\ ReturnedData = Null
        /\ log = <<>>
        /\ trace = <<>>
        /\ fetchRes = <<>>

\* an empty (not absent) query string with explicit retries and endpoint
C8_Witness ==
    /\ pc = "done"
    /\ entry = "executeQuery"
    /\ args[1].query = <<"">>
    /\ args[1].retries = <<1>>
    /\ args[1].endpoint # <<>>
    /\ result # <<>>

----------------------------------------------------------------------------
(* C9: executePersistedQuery called with operationName or sha256Hash       *)
(* absent or empty returns an error with code INVALID_PERSISTED_QUERY and  *)
(* null data and makes no transport call.                                  *)
C9_MissingHashFailsFast ==
    ( /\ entry = "executePersistedQuery"
      /\ (Default(args[1].operationName, "") = "" \/ Default(args[1].sha256Hash, "") = "") )
    => /\ pc = "done"
       /\ result # <<>>
       /\ ReturnedError # <<>>
       /\ ReturnedError[1].code = "INVALID_PERSISTED_QUERY"
       /\ ReturnedData = Null
       /\ log = <<>>
       /\ trace = <<>>
       /\ fetchRes = <<>>

\* the operation name is given, the hash is missing
C9_Witness ==
    /\ pc = "done"
    /\ entry = "executePersistedQuery"
    /\ args[1].operationName = <<"GetViewer">>
    /\ args[1].sha256Hash = <<>>
    /\ result # <<>>

----------------------------------------------------------------------------
(* C10: no pair returned by executeQuery or executePersistedQuery has both *)
(* a non-null error and non-null data: either the error is populated and   *)
(* the data is null, or the error is null.                                 *)
C10_ErrorOrData ==
    GraphQLReturned => (ReturnedError # <<>> => ReturnedData = Null)

\* a persisted query answered by a payload with both errors and data
C10_Witness ==
    /\ GraphQLReturned
    /\ entry = "executePersistedQuery"
    /\ LastIsOkWith({BodyErrData})
    /\ ReturnedError # <<>>

----------------------------------------------------------------------------
\* a finished call of query() or persistedQuery()
ConvenienceEnded == pc = "done" /\ via # "none"

\* s occurs in msg as a run of consecutive pieces
Contains(msg, s) ==
    \E i \in 1..(Len(msg) - Len(s) + 1) : SubSeq(msg, i, i + Len(s) - 1) = s

(* C11: query() and persistedQuery() end by raising a GraphQLError that     *)
(* carries the message of the pair's error exactly when the pair their     *)
(* tuple form produced has a non-null error; otherwise they return the     *)
(* pair's data.                                                            *)
C11_ThrowsIffError ==
    ConvenienceEnded =>
        /\ result # <<>> /\ conv # <<>>
        /\ entry = (IF via = "query" THEN "executeQuery" ELSE "executePersistedQuery")
        /\ IF result[1].error # <<>>
             THEN /\ conv[1].kind = "throw"
                  /\ conv[1].exc = Exception("GraphQLError", result[1].error[1].message)
             ELSE /\ conv[1].kind = "return"
                  /\ conv[1].val = result[1].data

\* persistedQuery() whose transport calls all failed: the pair has an error
C11_Witness ==
    /\ ConvenienceEnded
    /\ via = "persistedQuery"
    /\ Len(trace) = PersistedDefaultRetries + 1
    /\ result[1].error # <<>>
    /\ conv[1].kind = "throw"

\* query() that returned the data of a successful answer
C11_WitnessReturn ==
    /\ ConvenienceEnded
    /\ via = "query"
    /\ result[1].error = <<>>
    /\ conv[1].kind = "return"
    /\ conv[1].val = DataOf(JSONparse(BodyData).val)

----------------------------------------------------------------------------
\* every attempt so far was answered with HTTP 500
AlwaysAnswers500 ==
    /\ trace # <<>>
    /\ \A i \in 1..Len(trace) : NotOk(trace[i]) /\ trace[i].code = "500"

(* C12: query() with a non-empty query string against an endpoint that     *)
(* answers every attempt with HTTP 500 raises a GraphQLError whose message *)
(* contains the requested URL.                                             *)
C12_Http500NamesUrl ==
    (ConvenienceEnded /\ via = "query" /\ AlwaysAnswers500) =>
        /\ conv[1].kind = "throw"
        /\ conv[1].exc.kind = "GraphQLError"
        /\ url # <<>>
        /\ Contains(conv[1].exc.message, url)

\* all four attempts of the default retry budget were answered with 500
C12_Witness ==
    /\ ConvenienceEnded
    /\ via = "query"
    /\ args[1].query = <<"{viewer{id}}">>
    /\ AlwaysAnswers500
    /\ Len(trace) = GraphQLDefaultRetries + 1
    /\ url = <<"https://api.example", "/graphql">>

----------------------------------------------------------------------------
\* the headers the caller of _fetch passed and the plugin's default headers
CallerHeaders == req.customHeaders
PluginHeaders == held[1].defaultHeaders

(* C13: in every attempt the headers sent to the transport have exactly    *)
(* the keys of the plugin's default header set and of the caller's         *)
(* headers; a key present in both carries the caller's value, a key        *)
(* present in only one carries that set's value.                           *)
C13_CallerHeadersWin ==
    InFetch =>
        /\ Len(sent) = Len(trace)
        /\ \A i \in 1..Len(sent) :
             /\ DOMAIN sent[i].headers = DOMAIN CallerHeaders \cup DOMAIN PluginHeaders
             /\ \A k \in DOMAIN sent[i].headers :
                  sent[i].headers[k] = IF k \in DOMAIN CallerHeaders
                                       THEN CallerHeaders[k] ELSE PluginHeaders[k]

\* a collision on User-Agent, a default-only key, two attempts
C13_Witness ==
    /\ InFetch
    /\ Len(sent) = 2
    /\ CallerHeaders = Header("User-Agent", "C")
    /\ DOMAIN PluginHeaders = {"User-Agent", "Accept", "Content-Type"}
    /\ sent[2].headers["User-Agent"] = "C"
    /\ sent[2].headers["Accept"] = "*/*"

----------------------------------------------------------------------------
\* the headers the caller of a wrapper supplied in its options
SuppliedHeaders == Default(args[1].headers, EmptyHeaders)

\* in every attempt, header key carries the caller's value when the caller
\* supplied that key and the preset value otherwise
PresetUnderCaller(key, preset) ==
    \A i \in 1..Len(sent) :
        /\ key \in DOMAIN sent[i].headers
        /\ sent[i].headers[key] = IF key \in DOMAIN SuppliedHeaders
                                  THEN SuppliedHeaders[key] ELSE preset

(* C14: fetchJson and getJson send Accept: application/json and postJson   *)
(* sends Content-Type: application/json in every attempt, unless the       *)
(* caller supplied that header key, whose value is then sent; a plugin     *)
(* default header of the same key never replaces the preset value.         *)
C14_PresetHeaders ==
    InFetch =>
        /\ entry \in {"fetchJson", "getJson"} => PresetUnderCaller("Accept", "application/json")
        /\ entry = "postJson" => PresetUnderCaller("Content-Type", "application/json")

\* postJson without caller headers under a plugin default Content-Type
C14_Witness ==
    /\ InFetch
    /\ entry = "postJson"
    /\ sent # <<>>
    /\ SuppliedHeaders = EmptyHeaders
    /\ "Content-Type" \in DOMAIN PluginHeaders
    /\ PluginHeaders["Content-Type"] = "text/plain"
    /\ sent[1].headers["Content-Type"] = "application/json"

\* getJson whose caller supplied its own Accept header
C14_WitnessCaller ==
    /\ InFetch
    /\ entry = "getJson"
    /\ sent # <<>>
    /\ "Accept" \in DOMAIN SuppliedHeaders
    /\ sent[1].headers["Accept"] = "text/html"

----------------------------------------------------------------------------
\* bodies that decode to a payload without an errors key
NoErrorsKeyBodies == {BodyData, BodyEmpty}

\* a JSON GET: getJson, or _fetch with parseJson = true and method GET
JsonGet ==
    /\ InFetch
    /\ \/ entry = "getJson"
       \/ entry = "_fetch" /\ req.parseJson /\ toUpperCase(req.method) = "GET"

(* C15: a JSON GET whose first transport response is ok with a body that   *)
(* decodes to a payload without an errors key ends there: it returns the   *)
(* decoded payload itself after exactly one transport call, made through   *)
(* http.GET.                                                               *)
C15_JsonGetReturnsPayload ==
    (JsonGet /\ trace # <<>> /\ ~trace[1].threw /\ trace[1].isOk
             /\ trace[1].body \in NoErrorsKeyBodies) =>
        /\ FetchEnded
        /\ Len(trace) = 1
        /\ TransportCalls = 1
        /\ sent[1].call = "http.GET"
        /\ fetchRes[1].kind = "return"
        /\ fetchRes[1].val = JSONparse(trace[1].body).val

\* getJson answered 200 with {"data":{"x":1}}
C15_Witness ==
    /\ JsonGet
    /\ entry = "getJson"
    /\ trace = <<Response(TRUE, "200", BodyData)>>
    /\ fetchRes[1].val = Obj(ErrUndefined, "{\"x\":1}")

----------------------------------------------------------------------------
\* the second of two calls of the GET wrapper with the same inputs
SecondGet == first # <<>> /\ entry = "get"

----------------------------------------------------------------------------
\* the transport entry points in the order _fetch called them
RECURSIVE TransportLog(_)
TransportLog(l) ==
    IF l = <<>> THEN <<>>
    ELSE IF Head(l) \in TransportTags THEN <<Head(l)>> \o TransportLog(Tail(l))
    ELSE TransportLog(Tail(l))

UpperMethod == toUpperCase(req.method)

(* C20: every attempt makes exactly one transport call: http.GET with no   *)
(* body argument when the upper-cased method is GET, http.POST when it is  *)
(* POST, and http.request with the upper-cased method otherwise; all       *)
(* attempts of a request pass the same url, headers, body and auth flag.   *)
C20_OneTransportCallPerAttempt ==
    InFetch =>
        /\ Len(sent) = Len(trace)
        /\ TransportLog(log) = [i \in 1..Len(sent) |-> sent[i].call]
        /\ \A i \in 1..Len(sent) :
             /\ sent[i] = sent[1]
             /\ sent[i].url = url
             /\ sent[i].headers = headers
             /\ sent[i].useAuth = req.useAuth
             /\ UpperMethod = "GET" =>
                    sent[i].call = "http.GET" /\ sent[i].body = <<>> /\ sent[i].method = <<>>
             /\ UpperMethod = "POST" =>
                    sent[i].call = "http.POST" /\ sent[i].body = <<Body(req.data)>>
                                               /\ sent[i].method = <<>>
             /\ UpperMethod \notin {"GET", "POST"} =>
                    sent[i].call = "http.request" /\ sent[i].method = <<UpperMethod>>
                                                  /\ sent[i].body = <<Body(req.data)>>

\* two attempts of a lower-case patch with data and the auth flag
C20_Witness ==
    /\ InFetch
    /\ Len(sent) = 2
    /\ req.method = "patch"
    /\ sent[2].call = "http.request"
    /\ sent[2].method = <<"PATCH">>
    /\ sent[2].body = <<<<"raw">>>>
    /\ sent[2].useAuth

----------------------------------------------------------------------------
\* getBaseUrl has answered for the plugin cfg holds
BaseUrlAnswered == cfg # <<>> /\ cfg[1].answer # <<>>
Plugin == cfg[1].plugin
Answer == cfg[1].answer[1]

Unconfigured == ~Plugin.hasConfig \/ Len(Plugin.options) = 0

SelectedNonEmpty == Default(Plugin.selected, "") # ""
DefaultNonEmpty == Default(Plugin.dflt, "") # ""

(* C17 as stated: getBaseUrl returns "" when the configuration is not set  *)
(* or the baseUrl setting has no options; otherwise it returns the         *)
(* selected value when set and non-empty, else the setting's default, else *)
(* the first option, never "" when the first option is non-empty.          *)
C17_SelectedElseDefaultElseFirst ==
    BaseUrlAnswered =>
        IF Unconfigured THEN Answer = Value("")
        ELSE /\ ~Answer.threw
             /\ Answer.value = IF SelectedNonEmpty THEN Plugin.selected[1]
                                ELSE IF DefaultNonEmpty THEN Plugin.dflt[1]
                                ELSE Plugin.options[1]
             /\ Plugin.options[1] # "" => Answer.value # ""

(* C17 amended: getBaseUrl returns "" when the configuration is not set or *)
(* the baseUrl setting has no options. Otherwise it reads the settings     *)
(* object (and fails with a TypeError when there is none): a selected      *)
(* value that is set and non-empty is returned; a selected value that is   *)
(* set but empty gives the first option, whatever the setting's default;   *)
(* with no selected value it returns the setting's default when non-empty, *)
(* else the first option. A returned value is never "" when the first      *)
(* option is non-empty.                                                    *)
C17_BaseUrlResolution ==
    BaseUrlAnswered =>
        IF Unconfigured THEN Answer = Value("")
        ELSE IF ~Plugin.hasSettings
          THEN Answer.threw /\ Answer.exc.kind = "TypeError"
        ELSE /\ ~Answer.threw
             /\ Answer.value = IF SelectedNonEmpty THEN Plugin.selected[1]
                                ELSE IF Plugin.selected # <<>> THEN Plugin.options[1]
                                ELSE IF DefaultNonEmpty THEN Plugin.dflt[1]
                                ELSE Plugin.options[1]
             /\ Plugin.options[1] # "" => Answer.value # ""

\* an empty selection next to a non-empty default: the first option is returned
C17_Witness ==
    /\ BaseUrlAnswered
    /\ Plugin.hasConfig /\ Plugin.hasSettings
    /\ Plugin.options = <<"https://a.example", "https://b.example">>
    /\ Plugin.selected = <<"">>
    /\ Plugin.dflt = <<"https://dflt.example">>
    /\ Answer = Value("https://a.example")

----------------------------------------------------------------------------
\* source.getHome() has handed a value back to its caller
HomeReturned == home.returned # <<>>

(* C18: after source.enable, what source.getHome() hands back to its       *)
(* caller is a truthy value that itself has a results field holding the    *)
(* list of video entries.                                                  *)
C18_GetHomeReturnsResults ==
    HomeReturned =>
        /\ home.returned[1].t \in {"object", "promise"}
        /\ ResultsOf(home.returned[1]) # <<>>

----------------------------------------------------------------------------
(* C19: for each stub pager, hasMore() answers true on a fresh pager and   *)
(* false once nextPage() has been called, however many calls follow;       *)
(* every nextPage() returns the empty list; the page counter equals the    *)
(* number of nextPage() calls made.                                        *)
C19_StubPagers ==
    \A k \in PagerKinds :
        pagers[k] # <<>> =>
            LET p == pagers[k][1] IN
            /\ p.page = p.calls
            /\ p.calls > 0 => p.returned = << <<>> >>
            /\ p.asked # <<>> => p.asked[1] = (p.askedAt = 0)
            /\ hasMore(p) = (p.calls = 0)

\* one pager asked after its second nextPage(), another asked while fresh
C19_Witness ==
    /\ pagers["SearchPager"] # <<>>
    /\ pagers["SearchPager"][1].calls = 2
    /\ pagers["SearchPager"][1].askedAt = 2
    /\ pagers["SearchPager"][1].asked = <<FALSE>>
    /\ pagers["SubCommentsPager"] # <<>>
    /\ pagers["SubCommentsPager"][1].calls = 0
    /\ pagers["SubCommentsPager"][1].asked = <<TRUE>>

----------------------------------------------------------------------------
\* the body the serialization rule asks for: the text of a string, the JSON
\* text of any other supplied value, nothing when no data was supplied
SerializedData ==
    IF req.data = NullData THEN <<>>
    ELSE IF req.data.t = "string" THEN req.data.v
    ELSE stringifyData(req.data)

(* C21: for POST and every other non-GET method the body _fetch passes to  *)
(* the transport is the caller's data unchanged when it is a string, the   *)
(* JSON encoding of any other supplied value (0, false and {} included),   *)
(* and the empty string only when no data was supplied.                    *)
C21_BodySerialization ==
    (InFetch /\ UpperMethod # "GET") =>
        \A i \in 1..Len(sent) : sent[i].body = <<SerializedData>>

----------------------------------------------------------------------------
\* the ok responses among the outcomes consumed so far
OkResponses == Cardinality({i \in 1..Len(trace) : ~trace[i].threw /\ trace[i].isOk})

JsonDecodes == Count(log, {"JSON.parse"})
HtmlParses == Count(log, {"domParser.parseFromString"})

\* _fetch has returned, from inside the loop, what it made of an ok response
ReturnedFromOk ==
    /\ FetchEnded
    /\ fetchRes[1].kind = "return"
    /\ ~Last(trace).threw /\ Last(trace).isOk
    /\ ~AttemptFails(Last(trace))

(* C22: on an ok response _fetch applies exactly one result mode. With     *)
(* parseJson set (parseHtml set or not) the body is JSON-decoded and the   *)
(* HTML parser is never called; with only parseHtml set the HTML parser's  *)
(* document is returned; with neither the raw response is returned.        *)
C22_OneResultMode ==
    InFetch =>
        /\ req.parseJson =>
               /\ HtmlParses = 0
               /\ JsonDecodes = OkResponses
               /\ ReturnedFromOk => fetchRes[1].val = JSONparse(Last(trace).body).val
        /\ (~req.parseJson /\ req.parseHtml) =>
               /\ JsonDecodes = 0
               /\ HtmlParses = OkResponses
               /\ ReturnedFromOk => fetchRes[1].val = Document(Last(trace).body)
        /\ (~req.parseJson /\ ~req.parseHtml) =>
               /\ JsonDecodes = 0
               /\ HtmlParses = 0
               /\ ReturnedFromOk => fetchRes[1].val = RawResponse(Last(trace).body)

\* both modes asked for, an ok JSON answer: the payload comes back
C22_Witness ==
    /\ ReturnedFromOk
    /\ entry = "_fetch"
    /\ req.parseJson /\ req.parseHtml
    /\ Last(trace).body = BodyData
    /\ fetchRes[1].val = Obj(ErrUndefined, "{\"x\":1}")

----------------------------------------------------------------------------
\* JSON.stringify({ query, variables }) for the call's query and no variables
QueryBody == <<"{\"query\":\"", Default(args[1].query, ""), "\",\"variables\":", "{}", "}">>

(* C23: every transport call made for executePersistedQuery is an http.GET *)
(* of a _fetch running with throwOnError = false; every transport call     *)
(* made for executeQuery is an http.POST whose body is the JSON text of    *)
(* { query, variables }. Neither uses the other entry point or             *)
(* http.request.                                                           *)
C23_EntryPoints ==
    (InFetch /\ entry \in GraphQLEntries) =>
        /\ Len(sent) = Len(trace)
        /\ entry = "executePersistedQuery" =>
               /\ ~req.throwOnError
               /\ TransportLog(log) = [i \in 1..Len(sent) |-> "http.GET"]
               /\ \A i \in 1..Len(sent) : sent[i].call = "http.GET"
        /\ entry = "executeQuery" =>
               /\ TransportLog(log) = [i \in 1..Len(sent) |-> "http.POST"]
               /\ \A i \in 1..Len(sent) :
                      sent[i].call = "http.POST" /\ sent[i].body = <<QueryBody>>

\* a standard query that took two POSTs
C23_Witness ==
    /\ InFetch
    /\ entry = "executeQuery"
    /\ Len(sent) = 2
    /\ sent[2].call = "http.POST"
    /\ sent[2].body = <<<<"{\"query\":\"", "{viewer{id}}", "\",\"variables\":", "{}", "}">>>>

\* a persisted query that took two GETs
C23_WitnessPersisted ==
    /\ InFetch
    /\ entry = "executePersistedQuery"
    /\ Len(sent) = 2
    /\ sent[2].call = "http.GET"

----------------------------------------------------------------------------
(* C24: a standard query whose ok response payload carries an errors list  *)
(* returns an error with code GQL_ERROR that carries that list.            *)
C24_ErrorsPayloadIsGqlError ==
    (GraphQLReturned /\ entry = "executeQuery" /\ LastIsOkWith(ErrorsBodies)) =>
        /\ ReturnedError # <<>>
        /\ ReturnedError[1].code = "GQL_ERROR"
        /\ ReturnedError[1].errors = JSONparse(Last(trace).body).val.errors

----------------------------------------------------------------------------
\* the outcome is an ok response whose body decodes to a payload
DecodesToPayload(o) == ~o.threw /\ o.isOk /\ o.body \notin UnparsableBodies \cup NullBodies

\* the returned pair is a success pair
Success == GraphQLReturned /\ ReturnedError = <<>>

(* C25 as stated: a success pair is returned only if some attempt of the   *)
(* call got an ok response whose body decoded to a payload without an      *)
(* errors field; when every attempt is non-ok, unparsable or carries       *)
(* errors the pair has a non-null error.                                   *)
C25_SuccessOnlyWithoutErrorsField ==
    GraphQLReturned =>
        /\ Success =>
               \E i \in 1..Len(trace) :
                   DecodesToPayload(trace[i]) /\ trace[i].body \notin ErrorsFieldBodies
        /\ (\A i \in 1..Len(trace) :
                ~DecodesToPayload(trace[i]) \/ trace[i].body \in ErrorsFieldBodies)
             => ReturnedError # <<>>

(* C25 amended: a success pair is returned only if the last attempt of the *)
(* call got an ok response whose body decoded to a payload whose errors    *)
(* field is absent or falsy (an errors field holding null does not stand   *)
(* in the way); when every attempt threw, was non-ok, unparsable, decoded  *)
(* to null or carried a truthy errors field, the pair has a non-null       *)
(* error.                                                                  *)
C25_SuccessOnlyWithoutErrors ==
    GraphQLReturned =>
        /\ Success =>
               /\ trace # <<>>
               /\ DecodesToPayload(Last(trace))
               /\ Last(trace).body \notin ErrorsBodies
        /\ (\A i \in 1..Len(trace) :
                ~DecodesToPayload(trace[i]) \/ trace[i].body \in ErrorsBodies)
             => ReturnedError # <<>>

\* a success pair from a payload whose errors field is null
C25_Witness ==
    /\ Success
    /\ entry = "executeQuery"
    /\ Len(trace) = 2
    /\ LastIsOkWith({BodyErrFalsy})

----------------------------------------------------------------------------
\* a call of an APIClient method is under way or has ended
ApiCall == via = "api" /\ pc # "idle"
ResolvedBase == getBaseUrl(args[1].plugin)
BaseChars == Chars(ResolvedBase.value)

\* s without the slashes at its end, and s without the slash at its start
RECURSIVE Stem(_)
Stem(str) == IF endsWith(str, "/") THEN Stem(SubSeq(str, 1, Len(str) - 1)) ELSE str
Rest(str) == IF startsWith(str, "/") THEN Tail(str) ELSE str

AtMostOneTrailingSlash(str) == Len(str) - Len(Stem(str)) <= 1

(* C26: every APIClient method raises a ConfigError and makes no transport *)
(* call when the resolved base URL is empty; when the base URL is          *)
(* non-empty with at most one trailing slash, every URL handed to the      *)
(* transport is the base without its trailing slash, one slash, and the    *)
(* endpoint without its leading slash.                                     *)
C26_ApiUrls ==
    (ApiCall /\ ~ResolvedBase.threw) =>
        /\ ResolvedBase.value = "" =>
               /\ pc = "done"
               /\ conv # <<>> /\ conv[1].kind = "throw" /\ conv[1].exc.kind = "ConfigError"
               /\ sent = <<>> /\ trace = <<>> /\ TransportCalls = 0
        /\ (ResolvedBase.value # "" /\ AtMostOneTrailingSlash(BaseChars)) =>
               /\ pc = "loop" => url = Stem(BaseChars) \o <<"/">>
                                       \o Rest(ApiEndpoint(entry, args[1].endpoint))
               /\ \A i \in 1..Len(sent) :
                      sent[i].url = Stem(BaseChars) \o <<"/">>
                                    \o Rest(ApiEndpoint(entry, args[1].endpoint))

\* a base with a trailing slash and an endpoint without a leading one
C26_Witness ==
    /\ ApiCall
    /\ entry = "postJson"
    /\ ResolvedBase.value = "https://api.example/"
    /\ args[1].endpoint = <<"videos">>
    /\ Len(sent) = 2
    /\ sent[2].url = <<"https://api.example", "/", "videos">>

\* no base URL: the method raised
C26_WitnessConfigError ==
    /\ ApiCall
    /\ entry = "graphql"
    /\ ResolvedBase.value = ""
    /\ conv[1].exc.kind = "ConfigError"

----------------------------------------------------------------------------
\* the step just taken was a refreshAuthToken
JustRefreshed == auth.last # <<>>
LastRefresh == auth.last[1]

\* the token request of the refresh just made did not go through
RefreshFailed ==
    \/ LastRefresh.baseThrew
    \/ LastRefresh.resp.threw
    \/ ~LastRefresh.resp.isOk
    \/ LastRefresh.resp.body \in UnparsableBodies \cup NullBodies

(* C27: refreshAuthToken never raises. When the token request is not ok    *)
(* (or could not be made), the body is not valid JSON or decodes to null,  *)
(* authToken, userId and authTokenExpiration are as before the call;       *)
(* otherwise all three are written, authTokenExpiration with the time of   *)
(* the call plus 24 hours.                                                 *)
C27_RefreshAllOrNothing ==
    JustRefreshed =>
        /\ ~LastRefresh.raised
        /\ IF RefreshFailed
             THEN auth.state = LastRefresh.before
             ELSE /\ auth.state.authToken = <<YieldedToken(LastRefresh.resp.body)>>
                  /\ auth.state.userId = <<YieldedUser(LastRefresh.resp.body)>>
                  /\ auth.state.authTokenExpiration = <<LastRefresh.at + 86400000>>

\* a refresh answered 401 after an earlier one had stored a token
C27_Witness ==
    /\ JustRefreshed
    /\ ~LastRefresh.resp.threw /\ ~LastRefresh.resp.isOk
    /\ LastRefresh.before.authToken = <<"T1">>
    /\ auth.state.authToken = <<"T1">>
    /\ auth.state.authTokenExpiration # <<LastRefresh.at + 86400000>>

----------------------------------------------------------------------------
\* what isTokenValid() answers now, as a truth value
TokenValid == JsTruthy(isTokenValid(auth.state, auth.now))

(* C28: isTokenValid is truthy exactly when authToken is non-empty and     *)
(* authTokenExpiration is later than the current time; it is falsy from    *)
(* clearAuthState until the next successful refresh that yields a          *)
(* non-empty token, and falsy once 24 hours have passed since the last     *)
(* successful refresh.                                                     *)
C28_TokenValidity ==
    /\ TokenValid <=> /\ Default(auth.state.authToken, "") # ""
                      /\ auth.state.authTokenExpiration # <<>>
                      /\ auth.state.authTokenExpiration[1] > auth.now
    /\ auth.cleared => ~TokenValid
    /\ (auth.refreshedAt # <<>> /\ auth.now >= auth.refreshedAt[1] + 86400000) => ~TokenValid
    /\ auth.refreshedAt = <<>> => ~TokenValid

\* exactly 24 hours after the refresh that stored T1
C28_Witness ==
    /\ auth.state.authToken = <<"T1">>
    /\ auth.refreshedAt # <<>>
    /\ auth.now = auth.refreshedAt[1] + 86400000
    /\ ~TokenValid

\* a token stored twelve hours ago is valid
C28_WitnessValid ==
    /\ auth.state.authToken = <<"T2">>
    /\ auth.refreshedAt # <<>>
    /\ auth.now = auth.refreshedAt[1] + 43200000
    /\ TokenValid

----------------------------------------------------------------------------
\* the update just made
Updated == catalog.last # <<>>
LastUpdate == catalog.last[1]
\* positions of the list before the update that carry the plugin's id or name
Matching ==
    {i \in 1..Len(LastUpdate.before) :
        \/ LastUpdate.before[i].id = LastUpdate.config.id
        \/ LastUpdate.before[i].name = LastUpdate.config.name}
FirstMatching == CHOOSE i \in Matching : \A j \in Matching : i <= j
\* the entry of the submitted plugin
Submitted(item) ==
    /\ item.id = LastUpdate.config.id
    /\ item.name = LastUpdate.config.name
    /\ item.version = LastUpdate.config.version
    /\ item._installUrl = LastUpdate.config.sourceUrl

(* C29: updateSourcesJson is an upsert. With no entry of the plugin's id   *)
(* or name the entry is appended (length + 1, result "add"); otherwise the *)
(* first matching entry is replaced in place (length unchanged, result     *)
(* "update"); every other entry keeps its value and position, and a second *)
(* application with the same plugin config leaves the list as the first    *)
(* one left it.                                                            *)
C29_Upsert ==
    Updated =>
        /\ IF Matching = {}
           THEN /\ Len(catalog.sources) = Len(LastUpdate.before) + 1
                /\ LastUpdate.result = "add"
                /\ Submitted(catalog.sources[Len(catalog.sources)])
                /\ \A i \in 1..Len(LastUpdate.before) :
                       catalog.sources[i] = LastUpdate.before[i]
           ELSE /\ Len(catalog.sources) = Len(LastUpdate.before)
                /\ LastUpdate.result = "update"
                /\ Submitted(catalog.sources[FirstMatching])
                /\ \A i \in 1..Len(LastUpdate.before) :
                       i # FirstMatching => catalog.sources[i] = LastUpdate.before[i]
        /\ LastUpdate.again => catalog.sources = LastUpdate.before

\* an update by name of the second entry, with a later entry of the same id kept
C29_Witness ==
    /\ Updated
    /\ LastUpdate.result = "update"
    /\ Len(LastUpdate.before) >= 2
    /\ FirstMatching = 1
    /\ LastUpdate.before[1].id # LastUpdate.config.id
    /\ LastUpdate.before[2].id = LastUpdate.config.id
    /\ catalog.sources[1].version = 1
    /\ catalog.sources[2].version = 0

\* the same config applied a second time after it was appended
C29_WitnessTwice ==
    /\ Updated
    /\ LastUpdate.again
    /\ LastUpdate.result = "update"
    /\ LastUpdate.before # <<>>
    /\ LastUpdate.before[Len(LastUpdate.before)].id = "c"

----------------------------------------------------------------------------
\* the process of the submit tool is over
ProcessEnded == job.pc \in {"ended", "exited"}

(* C30: once the fork has been cloned into the temporary directory, the    *)
(* cleanup step has run by the time the process ends, on every path: after *)
(* a pull request, after a failed pull-request creation, and after a       *)
(* failure of updateSourcesJson or commitAndPush.                          *)
C30_CleanupOnEveryPath ==
    (ProcessEnded /\ job.cloned) => job.cleaned

====
